---- MODULE Spec2Model ----
(***************************************************************************)
(* Resource catalog of spatialvault: the collection lifecycle (create,     *)
(* read, partial update with rename, replace, delete) of                   *)
(* src/src/services/collection_service.rs behind the HTTP handlers of      *)
(* src/src/api/collections/handlers.rs, run by concurrent requests against *)
(* one PostgreSQL database (READ COMMITTED transactions, row locks taken   *)
(* by SELECT ... FOR UPDATE, transactional DDL).                           *)
(*                                                                         *)
(* Strings are sequences of one-character strings, so that split(':'),     *)
(* join("_"), starts_with and is_valid_role_name are computed as the code  *)
(* computes them.  Option<T> is a set with at most one element.            *)
(***************************************************************************)
EXTENDS Integers, Sequences, FiniteSets, TLC

VARIABLES
    collections,  \* committed rows of spatialvault.collections
    tables,       \* committed dedicated feature tables
    aliases,      \* committed rows of spatialvault.collection_aliases
    roles,        \* native roles (each with its private schema)
    privileges,   \* granted schema and table privileges
    items,        \* committed feature / item rows of every table
    nextId,       \* number of collection ids handed out so far
    nextItem,     \* number of feature / item ids handed out so far
    jobs,         \* rows of spatialvault.processes_jobs
    workers,      \* per job worker: its position in poll_and_process_job
    conns,        \* per pooled connection: its session role
    req           \* per request slot: the request in flight and its transaction

vars == <<collections, tables, aliases, roles, privileges, items, nextId, nextItem,
          jobs, workers, conns, req>>

----------------------------------------------------------------------------
(* Bounds *)

MaxVersion == 2
MaxIds == 2
MaxItems == 1
MaxArgs == 4
MaxNested == 2
MaxJobs == 2

(* Program constants *)

MaxIdentLen == 63
InitialVersion == 1

----------------------------------------------------------------------------
(* Strings *)

Colon == ":"
Underscore == "_"
Hyphen == "-"

AsciiAlphabetic == {"a", "b", "c", "g", "u", "v"}
AsciiDigit == {"1"}
AsciiAlphanumeric == AsciiAlphabetic \cup AsciiDigit

U == <<"u">>
V == <<"v">>
G == <<"g">>

NameUA == <<"u", ":", "a">>
NameC == <<"c">>

Procs == {"p1", "p2"}
Users == {U, V}
CreateIds == {<<"a">>, <<"1">>}
PathIds == {NameUA, NameC}
NewIds == {NameUA, NameC}
CollectionTypes == {"vector", "raster"}

\* AuthenticatedUser.groups as supplied by the auth layer
GroupsOf(user) == IF user = U THEN {G} ELSE {}

\* str::starts_with
StartsWith(s, prefix) ==
    /\ Len(prefix) <= Len(s)
    /\ SubSeq(s, 1, Len(prefix)) = prefix

\* str::split(':') collected into a Vec
RECURSIVE SplitColon(_)
SplitColon(s) ==
    IF \A i \in 1..Len(s) : s[i] # Colon
    THEN <<s>>
    ELSE LET i == CHOOSE k \in 1..Len(s) :
                      /\ s[k] = Colon
                      /\ \A j \in 1..(k - 1) : s[j] # Colon
         IN  <<SubSeq(s, 1, i - 1)>> \o SplitColon(SubSeq(s, i + 1, Len(s)))

\* [&str]::join("_")
RECURSIVE JoinUnderscore(_)
JoinUnderscore(parts) ==
    IF Len(parts) = 0 THEN <<>>
    ELSE IF Len(parts) = 1 THEN parts[1]
    ELSE parts[1] \o <<Underscore>> \o JoinUnderscore(Tail(parts))

\* is_valid_role_name
is_valid_role_name(name) ==
    /\ Len(name) # 0
    /\ Len(name) <= MaxIdentLen
    /\ \A i \in 1..Len(name) :
          name[i] \in AsciiAlphanumeric \cup {Underscore, Hyphen}
    /\ name[1] \in AsciiAlphabetic \cup {Underscore}

----------------------------------------------------------------------------
(* Option<T> as a set of at most one element *)

None == {}
Some(x) == {x}
The(s) == CHOOSE x \in s : TRUE

----------------------------------------------------------------------------
(* Rows *)

Row(id, name, owner, schema, table, ctype, title, version) ==
    [id |-> id, canonical_name |-> name, owner |-> owner,
     schema_name |-> schema, table_name |-> table,
     collection_type |-> ctype, title |-> title, version |-> version]

TableRef(schema, table) == [schema |-> schema, table |-> table]

Idle ==
    [pc |-> "idle", op |-> "none", user |-> <<>>, name |-> <<>>,
     expected |-> None, new_name |-> None, title |-> None, owner |-> <<>>,
     ctype |-> "none", assets |-> FALSE, target |-> 0, waited |-> FALSE,
     cur |-> None,
     coll |-> None, keyshare |-> {},
     newrow |-> None, delrow |-> FALSE, newalias |-> None,
     newtbl |-> None, newidx |-> FALSE, droptbl |-> None,
     newitem |-> None,
     feature_id |-> 0, geometry |-> FALSE, store |-> None, fallback |-> FALSE,
     properties |-> None,
     item |-> None, delitem |-> FALSE, feature |-> None,
     principal |-> <<>>, permission |-> "none", shares |-> {},
     filter |-> None, sql |-> None, error |-> <<>>,
     job_id |-> 0, job |-> None, conn |-> None, tx |-> None,
     status |-> "none", detail |-> "none", result |-> None,
     location |-> None]

\* pcs at which the request holds an open transaction
TxPcs == {"select", "lock", "alias_insert", "update", "insert",
          "create_table", "create_index", "drop_table", "delete_row",
          "i_insert", "i_bump", "m_select", "m_lock", "m_write", "commit"}

InTx(p) == req[p].pc \in TxPcs

\* the row lock of SELECT ... FOR UPDATE, held until the transaction ends
HoldsLock(p, id) ==
    /\ InTx(p)
    /\ \E r \in req[p].cur : r.id = id

Locked_nolock(p, id) == FALSE

\* some other transaction holds the row lock
Locked(p, id) == \E q \in Procs \ {p} : HoldsLock(q, id)

\* the row lock on a feature or item row
HoldsItemLock(p, id) ==
    /\ InTx(p)
    /\ \E i \in req[p].item : i.id = id

ItemLocked_with_collection(p, id) ==
    \E q \in Procs \ {p} : InTx(q) /\ (req[q].cur # None \/ HoldsItemLock(q, id))

ItemLocked_never(p, id) == FALSE

ItemLocked(p, id) == \E q \in Procs \ {p} : HoldsItemLock(q, id)

\* some other transaction holds the row's key-share lock (foreign key check
\* of an uncommitted item insert), which conflicts with FOR UPDATE
KeyShared(p, id) ==
    \E q \in Procs \ {p} : InTx(q) /\ id \in req[q].keyshare

\* get_collection: point read of the committed catalog
get_collection(name) == {r \in collections : r.canonical_name = name}

\* get_alias: the alias targets recorded for a name
get_alias(name) == {a.new_name : a \in {b \in aliases : b.old_name = name}}

----------------------------------------------------------------------------
(* Checks of the mutation path *)

version_matches_unchecked(expected, current) == TRUE

version_matches_required(expected, current) ==
    expected # None /\ The(expected) = current.version

version_matches_default(expected, current) ==
    current.version = IF expected = None THEN InitialVersion ELSE The(expected)

\* if let Some(version) = expected_version { if current.version != version .. }
version_matches(expected, current) ==
    \/ expected = None
    \/ current.version = The(expected)

is_owner_anyone(current, username) == TRUE

\* if current.owner != username { Forbidden }
is_owner(current, username) == current.owner = username

final_name_kept(collection_id, new_name) == collection_id

\* let final_name = if let Some(new_canonical_name) = new_name { .. } else { collection_id }
final_name(collection_id, new_name) ==
    IF new_name # None THEN The(new_name) ELSE collection_id

next_version_same(version) == version

\* version = version + 1
next_version(version) == version + 1

\* title = COALESCE($2, title)
coalesce(value, old) == IF value # None THEN The(value) ELSE old

\* str::ends_with
EndsWith(s, suffix) ==
    /\ Len(suffix) <= Len(s)
    /\ SubSeq(s, Len(s) - Len(suffix) + 1, Len(s)) = suffix

\* request.id != collection_id && !request.id.ends_with(":" + last segment)
body_id_mismatch(body_id, collection_id) ==
    LET parts == SplitColon(collection_id)
        last == parts[Len(parts)]
    IN  /\ body_id # collection_id
        /\ ~EndsWith(body_id, <<Colon>> \o last)

\* canonical name of a create request: prepend the username if not prefixed
canonical_name_of(username, id) ==
    IF StartsWith(id, username \o <<Colon>>) THEN id
    ELSE username \o <<Colon>> \o id

creates_table_never(collection_type) == FALSE

creates_table_always(collection_type) == TRUE

\* if collection_type == "vector" { CREATE TABLE ...; CREATE INDEX ... }
creates_table(collection_type) == collection_type = "vector"

drops_table_never(collection_type) == FALSE

\* if collection.collection_type == "vector" { DROP TABLE IF EXISTS ... }
drops_table(collection_type) == collection_type = "vector"

\* schema and table derived from the canonical name
schema_of(canonical_name) == SplitColon(canonical_name)[1]
table_of(canonical_name) == JoinUnderscore(Tail(SplitColon(canonical_name)))

----------------------------------------------------------------------------
(* The database: unique index on canonical_name, catalog of tables *)

\* another open transaction has an uncommitted row version carrying or
\* giving up this name: the unique index makes the statement wait for it
NamePending(p, name) ==
    \E q \in Procs \ {p} :
        /\ InTx(q)
        /\ \/ \E r \in req[q].newrow : r.canonical_name = name
           \/ /\ \E c \in req[q].cur : c.canonical_name = name
              /\ \/ req[q].delrow
                 \/ \E r \in req[q].newrow : r.canonical_name # name

NameTaken_never(name) == FALSE

\* a committed live row already carries the name
NameTaken(name) == \E r \in collections : r.canonical_name = name

\* another open transaction has created or dropped this table
TablePending(p, ref) ==
    \E q \in Procs \ {p} :
        /\ InTx(q)
        /\ (ref \in req[q].newtbl \/ ref \in req[q].droptbl)

TableExists(ref) ==
    \E t \in tables : t.schema = ref.schema /\ t.table = ref.table

\* another open transaction has read or locked rows of this table and
\* so holds a table lock that conflicts with DROP TABLE
TableInUse(p, ref) ==
    \E q \in Procs \ {p} :
        /\ req[q].pc \in {"m_lock", "m_write", "commit"}
        /\ ref \in req[q].store

\* another open transaction holds the row lock of an item of this collection
ItemsInUse(p, collection_id) ==
    \E q \in Procs \ {p} :
        /\ InTx(q)
        /\ \E i \in req[q].item : i.collection_id = collection_id

\* another open transaction has deleted the collection row, and with it
\* (ON DELETE CASCADE) the items of the collection
CascadePending(p, collection_id) ==
    \E q \in Procs \ {p} :
        /\ InTx(q)
        /\ req[q].delrow
        /\ \E c \in req[q].cur : c.id = collection_id

\* ensure_role provisions the role together with its private schema
SchemaExists(schema) == schema \in roles

----------------------------------------------------------------------------
(* End of a request *)

\* the response; an open transaction is dropped, which rolls it back
Finish(p, status, detail, result) ==
    [req[p] EXCEPT !.pc = "done", !.status = status, !.detail = detail,
                   !.result = result, !.target = 0, !.keyshare = {},
                   !.coll = None,
                   !.cur = IF status = "Database" THEN None ELSE @,
                   !.newrow = None, !.delrow = FALSE, !.newalias = None,
                   !.newtbl = None, !.newidx = FALSE, !.droptbl = None,
                   !.newitem = None, !.store = None, !.fallback = FALSE,
                   !.delitem = FALSE,
                   !.item = IF status = "Database" THEN None ELSE @]

\* the job workers (main.rs --worker) and the connections of the pool
Workers == {"w1", "w2"}
Conns == {"c1", "c2", "c3"}

\* a worker between two jobs
Polling == [pc |-> "poll", job |-> 0, step |-> 0]

InFlightCreates == Cardinality({q \in Procs : req[q].op = "create" /\ InTx(q)})
InFlightItems ==
    Cardinality({q \in Procs : /\ req[q].op = "create_feature"
                               /\ req[q].pc \notin {"idle", "done"}})

\* the version counter is explored up to MaxVersion
VersionRoom(rows) == \A c \in rows : c.version < MaxVersion

----------------------------------------------------------------------------
(* Initial state: an empty catalog, every request slot idle *)

Init ==
    /\ collections = {}
    /\ tables = {}
    /\ aliases = {}
    /\ roles = {}
    /\ privileges = {}
    /\ items = {}
    /\ nextId = 0
    /\ nextItem = 0
    /\ jobs = {}
    /\ workers = [w \in Workers |-> Polling]
    /\ conns = [c \in Conns |-> None]
    /\ req = [p \in Procs |-> Idle]

----------------------------------------------------------------------------
(* POST /collections *)

owner_authorized_anyone(owner, user, groups) == TRUE

\* owner != user.username && !user.groups.contains(&owner) is refused
owner_authorized(owner, user, groups) == owner = user \/ owner \in groups

\* handlers::create_collection up to the start of the transaction of
\* CollectionService::create_collection
CreateCollectionHandler(p, user, id, owner_opt, ctype) ==
    LET canonical_name == canonical_name_of(user, id)
        owner == IF owner_opt # None THEN The(owner_opt) ELSE user
        r0 == [Idle EXCEPT !.op = "create", !.user = user,
                           !.name = canonical_name, !.owner = owner,
                           !.ctype = ctype, !.pc = "done"]
        authorized == owner_authorized(owner, user, GroupsOf(user))
        ensured == authorized /\ is_valid_role_name(owner)
    IN  /\ req[p].pc = "idle"
        /\ nextId + InFlightCreates < MaxIds
        /\ roles' = IF ensured THEN roles \cup {owner} ELSE roles
        /\ req' = [req EXCEPT ![p] =
              IF ~authorized
              THEN [r0 EXCEPT !.status = "Forbidden"]
              ELSE IF ~is_valid_role_name(owner)
              THEN [r0 EXCEPT !.status = "BadRequest", !.detail = "username"]
              ELSE IF table_of(canonical_name) = <<>>
              THEN [r0 EXCEPT !.status = "BadRequest", !.detail = "segments"]
              ELSE IF ~is_valid_role_name(schema_of(canonical_name))
              THEN [r0 EXCEPT !.status = "BadRequest", !.detail = "schema"]
              ELSE IF ~is_valid_role_name(table_of(canonical_name))
              THEN [r0 EXCEPT !.status = "BadRequest", !.detail = "table"]
              ELSE [r0 EXCEPT !.pc = "insert"]]
        /\ UNCHANGED <<collections, tables, aliases, privileges, items, nextId, nextItem, jobs, workers, conns>>

\* INSERT INTO spatialvault.collections ... RETURNING *
InsertRow(p) ==
    LET r == req[p]
        row == Row(nextId + 1, r.name, r.owner, schema_of(r.name),
                   table_of(r.name), r.ctype, "t0", InitialVersion)
    IN  /\ r.pc = "insert"
        /\ ~NamePending(p, r.name)
        /\ IF NameTaken(r.name)
           THEN /\ req' = [req EXCEPT ![p] =
                      Finish(p, "Database", "unique_violation", None)]
                /\ UNCHANGED nextId
           ELSE /\ req' = [req EXCEPT ![p] =
                      [r EXCEPT !.newrow = Some(row),
                                !.pc = IF creates_table(r.ctype)
                                       THEN "create_table" ELSE "commit"]]
                /\ nextId' = nextId + 1
        /\ UNCHANGED <<collections, tables, aliases, roles, privileges, items, nextItem, jobs, workers, conns>>

\* CREATE TABLE schema.table (...)
CreateTable(p) ==
    LET r == req[p]
        ref == TableRef(schema_of(r.name), table_of(r.name))
    IN  /\ r.pc = "create_table"
        /\ ~TablePending(p, ref)
        /\ req' = [req EXCEPT ![p] =
              IF ~SchemaExists(ref.schema)
              THEN Finish(p, "Database", "invalid_schema_name", None)
              ELSE IF TableExists(ref)
              THEN Finish(p, "Database", "duplicate_table", None)
              ELSE [r EXCEPT !.newtbl = Some(ref), !.pc = "create_index"]]
        /\ UNCHANGED <<collections, tables, aliases, roles, privileges, items, nextId, nextItem, jobs, workers, conns>>

\* CREATE INDEX ON schema.table USING GIST(geometry)
CreateIndex(p) ==
    /\ req[p].pc = "create_index"
    /\ req' = [req EXCEPT ![p] =
          [req[p] EXCEPT !.newidx = TRUE, !.pc = "commit"]]
    /\ UNCHANGED <<collections, tables, aliases, roles, privileges, items, nextId, nextItem, jobs, workers, conns>>

----------------------------------------------------------------------------
(* PATCH, PUT and DELETE /collections/{collection_id} *)

\* handlers::patch_collection: If-Match is optional
PatchCollectionHandler(p, user, collection_id, expected_version, title, new_name) ==
    /\ req[p].pc = "idle"
    /\ req' = [req EXCEPT ![p] =
          [Idle EXCEPT !.op = "patch", !.user = user, !.name = collection_id,
                       !.expected = expected_version, !.title = title,
                       !.new_name = new_name, !.pc = "select"]]
    /\ UNCHANGED <<collections, tables, aliases, roles, privileges, items, nextId, nextItem, jobs, workers, conns>>

\* handlers::update_collection (PUT): the body id is validated first
UpdateCollectionHandler(p, user, collection_id, expected_version, body_id, title) ==
    /\ req[p].pc = "idle"
    /\ req' = [req EXCEPT ![p] =
          LET r0 == [Idle EXCEPT !.op = "put", !.user = user,
                                 !.name = collection_id,
                                 !.expected = expected_version,
                                 !.title = Some(title)]
          IN  IF body_id_mismatch(body_id, collection_id)
              THEN [r0 EXCEPT !.pc = "done", !.status = "BadRequest",
                              !.detail = "body_id"]
              ELSE [r0 EXCEPT !.pc = "select"]]
    /\ UNCHANGED <<collections, tables, aliases, roles, privileges, items, nextId, nextItem, jobs, workers, conns>>

\* handlers::delete_collection
DeleteCollectionHandler(p, user, collection_id, expected_version) ==
    /\ req[p].pc = "idle"
    /\ req' = [req EXCEPT ![p] =
          [Idle EXCEPT !.op = "delete", !.user = user, !.name = collection_id,
                       !.expected = expected_version, !.pc = "select"]]
    /\ UNCHANGED <<collections, tables, aliases, roles, privileges, items, nextId, nextItem, jobs, workers, conns>>

\* what follows the row fetched under its lock: version check, then
\* ownership check, then the first mutating statement
AfterLock(p, row) ==
    LET r == [req[p] EXCEPT !.cur = Some(row), !.target = 0]
    IN  IF ~version_matches(r.expected, row)
        THEN [r EXCEPT !.pc = "done", !.status = "PreconditionFailed"]
        ELSE IF ~is_owner(row, r.user)
        THEN [r EXCEPT !.pc = "done", !.status = "Forbidden"]
        ELSE IF r.op = "delete"
        THEN [r EXCEPT !.pc = IF drops_table(row.collection_type)
                              THEN "drop_table" ELSE "delete_row"]
        ELSE IF r.op = "patch" /\ r.new_name # None
        THEN [r EXCEPT !.pc = "alias_insert"]
        ELSE [r EXCEPT !.pc = "update"]

\* SELECT * FROM spatialvault.collections WHERE canonical_name = $1 FOR UPDATE
SelectForUpdate(p) ==
    LET found == get_collection(req[p].name)
    IN  /\ req[p].pc = "select"
        /\ req' = [req EXCEPT ![p] =
              IF found = {}
              THEN Finish(p, "NotFound", "none", None)
              ELSE IF Locked(p, The(found).id) \/ KeyShared(p, The(found).id)
              THEN [req[p] EXCEPT !.pc = "lock", !.target = The(found).id,
                                  !.waited = TRUE]
              ELSE AfterLock(p, The(found))]
        /\ UNCHANGED <<collections, tables, aliases, roles, privileges, items, nextId, nextItem, jobs, workers, conns>>

\* the same statement, resumed once the transaction holding the row lock
\* has ended: the latest version of the row is re-checked against the
\* WHERE clause
AcquireLock(p) ==
    LET found == {c \in collections : /\ c.id = req[p].target
                                      /\ c.canonical_name = req[p].name}
    IN  /\ req[p].pc = "lock"
        /\ ~Locked(p, req[p].target)
        /\ ~KeyShared(p, req[p].target)
        /\ req' = [req EXCEPT ![p] =
              IF found = {}
              THEN Finish(p, "NotFound", "none", None)
              ELSE AfterLock(p, The(found))]
        /\ UNCHANGED <<collections, tables, aliases, roles, privileges, items, nextId, nextItem, jobs, workers, conns>>

InsertAlias_skipped(p) ==
    /\ req[p].pc = "alias_insert"
    /\ req' = [req EXCEPT ![p].pc = "update"]
    /\ UNCHANGED <<collections, tables, aliases, roles, privileges, items, nextId, nextItem, jobs, workers, conns>>

InsertAlias_on_pool(p) ==
    LET r == req[p]
    IN  /\ r.pc = "alias_insert"
        /\ aliases' = aliases \cup {[old_name |-> r.name,
                                     new_name |-> The(r.new_name)]}
        /\ req' = [req EXCEPT ![p] = [r EXCEPT !.pc = "update"]]
        /\ UNCHANGED <<collections, tables, roles, privileges, items, nextId, nextItem, jobs, workers, conns>>

\* INSERT INTO spatialvault.collection_aliases (old_name, new_name)
InsertAlias(p) ==
    LET r == req[p]
    IN  /\ r.pc = "alias_insert"
        /\ req' = [req EXCEPT ![p] =
              [r EXCEPT !.newalias = Some([old_name |-> r.name,
                                           new_name |-> The(r.new_name)]),
                        !.pc = "update"]]
        /\ UNCHANGED <<collections, tables, aliases, roles, privileges, items, nextId, nextItem, jobs, workers, conns>>

\* UPDATE spatialvault.collections SET ... WHERE id = $n RETURNING *
UpdateRow(p) ==
    LET r == req[p]
        current == The(r.cur)
        name == IF r.op = "patch" THEN final_name(r.name, r.new_name)
                ELSE current.canonical_name
        title == IF r.op = "patch" THEN coalesce(r.title, current.title)
                 ELSE The(r.title)
        row == [current EXCEPT !.canonical_name = name, !.title = title,
                               !.version = next_version(current.version)]
    IN  /\ r.pc = "update"
        /\ VersionRoom(r.cur)
        /\ name # current.canonical_name => ~NamePending(p, name)
        /\ req' = [req EXCEPT ![p] =
              IF name # current.canonical_name /\ NameTaken(name)
              THEN Finish(p, "Database", "unique_violation", None)
              ELSE [r EXCEPT !.newrow = Some(row), !.pc = "commit"]]
        /\ UNCHANGED <<collections, tables, aliases, roles, privileges, items, nextId, nextItem, jobs, workers, conns>>

\* DROP TABLE IF EXISTS schema.table CASCADE
DropTable(p) ==
    LET r == req[p]
        current == The(r.cur)
        ref == TableRef(current.schema_name, current.table_name)
    IN  /\ r.pc = "drop_table"
        /\ ~TablePending(p, ref)
        /\ ~TableInUse(p, ref)
        /\ req' = [req EXCEPT ![p] =
              [r EXCEPT !.droptbl = Some(ref), !.pc = "delete_row"]]
        /\ UNCHANGED <<collections, tables, aliases, roles, privileges, items, nextId, nextItem, jobs, workers, conns>>

\* DELETE FROM spatialvault.collections WHERE id = $1
DeleteRow(p) ==
    /\ req[p].pc = "delete_row"
    /\ ~ItemsInUse(p, The(req[p].cur).id)
    /\ req' = [req EXCEPT ![p] =
          [req[p] EXCEPT !.delrow = TRUE, !.pc = "commit"]]
    /\ UNCHANGED <<collections, tables, aliases, roles, privileges, items, nextId, nextItem, jobs, workers, conns>>

----------------------------------------------------------------------------
(* End of the transaction *)

\* tx.commit(): every statement of the transaction takes effect at once
Commit(p) ==
    LET r == req[p]
        replaced == IF r.delrow \/ r.newrow # None
                    THEN {c.id : c \in r.cur} ELSE {}
        written == IF r.delitem \/ r.newitem # None THEN r.item ELSE {}
    IN  /\ r.pc = "commit"
        /\ collections' =
              {c \in collections : c.id \notin replaced} \cup r.newrow
        /\ tables' =
              {t \in tables : TableRef(t.schema, t.table) \notin r.droptbl}
              \cup {[schema |-> ref.schema, table |-> ref.table,
                     indexed |-> r.newidx] : ref \in r.newtbl}
        /\ aliases' = aliases \cup r.newalias
        /\ privileges' = {g \in privileges :
                              TableRef(g.schema, g.table) \notin r.droptbl}
        /\ items' =
              {i \in items : /\ TableRef(i.schema, i.table) \notin r.droptbl
                             /\ ~(r.delrow /\ i.collection_id \in replaced)
                             /\ i \notin written}
              \cup r.newitem
        /\ req' = [req EXCEPT ![p] =
              [Finish(p, "Ok", "none", r.newrow) EXCEPT
                  !.feature = IF r.item # None THEN r.newitem ELSE None]]
        /\ UNCHANGED <<roles, nextId, nextItem, jobs, workers, conns>>

\* a statement or the commit fails in the backend (connection lost,
\* statement cancelled): `?` returns and the dropped transaction rolls back
BackendFailure(p) ==
    /\ req[p].pc \in TxPcs \cup {"f_insert", "f_bump", "f_bumpwait"}
    /\ req' = [req EXCEPT ![p] = Finish(p, "Database", "unavailable", None)]
    /\ UNCHANGED <<collections, tables, aliases, roles, privileges, items, nextId, nextItem, jobs, workers, conns>>

\* the caller disconnects: the server drops the handler's future wherever it
\* is suspended, and with it an open transaction, which rolls back
Cancel(p) ==
    /\ req[p].pc \notin {"idle", "done"}
    /\ req' = [req EXCEPT ![p] = Finish(p, "Cancelled", "none", None)]
    /\ UNCHANGED <<collections, tables, aliases, roles, privileges, items, nextId, nextItem, jobs, workers, conns>>

\* the requests that change one feature or item
FeatureMutations == {"update_feature", "replace_feature", "delete_feature"}

\* the response has been sent; the slot serves the next request
Respond(p) ==
    /\ req[p].pc = "done"
    /\ req' = [req EXCEPT ![p] = Idle]
    /\ UNCHANGED <<collections, tables, aliases, roles, privileges, items, nextId, nextItem, jobs, workers, conns>>

----------------------------------------------------------------------------
(* GET /collections/{collection_id} *)

\* handlers::get_collection
GetCollectionHandler(p, user, collection_id) ==
    /\ req[p].pc = "idle"
    /\ req' = [req EXCEPT ![p] =
          [Idle EXCEPT !.op = "get", !.user = user, !.name = collection_id,
                       !.pc = "alias"]]
    /\ UNCHANGED <<collections, tables, aliases, roles, privileges, items, nextId, nextItem, jobs, workers, conns>>

\* the GET handlers of the endpoints below a collection
ShareOps == {"add_share", "remove_share"}

Permissions == {"read", "write"}

\* a row of information_schema.table_privileges, or the USAGE privilege on
\* a schema (table empty)
Grant(schema, table, grantee, privilege_type) ==
    [schema |-> schema, table |-> table, grantee |-> grantee,
     privilege_type |-> privilege_type]

\* SELECT EXISTS(SELECT 1 FROM pg_roles WHERE rolname = $1)
role_exists(role_name) == role_name \in roles

privileges_of_read(permission) == {"SELECT"}

\* PermissionLevel::Read => SELECT, PermissionLevel::Write => SELECT,
\* INSERT, UPDATE, DELETE
privileges_of(permission) ==
    IF permission = "read" THEN {"SELECT"}
    ELSE {"SELECT", "INSERT", "UPDATE", "DELETE"}

\* list_shares: the grants on the collection's table to anyone but the
\* owner, grouped by grantee; write if any of INSERT, UPDATE, DELETE is
\* among them, read otherwise
list_shares(collection) ==
    LET table_grants ==
            {g \in privileges :
                /\ g.schema = collection.schema_name
                /\ g.table = collection.table_name
                /\ g.grantee # collection.owner}
    IN  {[principal |-> n,
          permission |->
              IF \E g \in table_grants :
                    /\ g.grantee = n
                    /\ g.privilege_type \in {"INSERT", "UPDATE", "DELETE"}
              THEN "write" ELSE "read"] : n \in {g.grantee : g \in table_grants}}

SubresourceGets ==
    {"list_features", "get_collection_schema", "get_tileset", "list_shares"}

\* list_features, get_collection_schema, get_tileset, list_shares up to
\* the alias check
SubresourceHandler(p, op, user, collection_id) ==
    /\ req[p].pc = "idle"
    /\ req' = [req EXCEPT ![p] =
          [Idle EXCEPT !.op = op, !.user = user, !.name = collection_id,
                       !.pc = "alias"]]
    /\ UNCHANGED <<collections, tables, aliases, roles, privileges, items, nextId, nextItem, jobs, workers, conns>>

\* the handlers that answer a moved collection with 307 Temporary Redirect;
\* the others return Err(NotFound("Collection moved to ..."))
redirects(op) ==
    op \in {"get", "get_collection_schema", "get_tileset", "list_shares",
            "add_share", "remove_share"}

\* the Location header: {base_url}/collections/{new_name}[/{path}]
location_of(op, new_name) ==
    [collection |-> new_name,
     path |-> IF op = "get_collection_schema" THEN "schema"
              ELSE IF op = "get_tileset" THEN "tiles"
              ELSE IF op \in {"list_shares", "add_share"} THEN "sharing"
              ELSE IF op = "remove_share" THEN "sharing/{principal}"
              ELSE ""]

check_alias_redirect_always(name) == get_alias(name)

\* check_alias_redirect: an alias is followed only if no active collection
\* carries exactly this name
check_alias_redirect(name) ==
    IF get_collection(name) # {} THEN {} ELSE get_alias(name)

\* the alias check that opens every name-keyed handler: GET answers 307
\* with the new location, the feature mutations answer "Collection moved"
CheckAliasRedirect(p) ==
    LET r == req[p]
        targets == check_alias_redirect(r.name)
        answers == IF targets = {} THEN {None}
                   ELSE {Some(new_name) : new_name \in targets}
    IN  /\ r.pc = "alias"
        /\ \E moved \in answers :
              req' = [req EXCEPT ![p] =
                 IF moved = None
                 THEN [r EXCEPT !.pc = IF r.op = "get" THEN "get"
                                      ELSE IF r.op \in SubresourceGets
                                      THEN "sub_get"
                                      ELSE IF r.op \in ShareOps
                                      THEN "share"
                                      ELSE IF r.op \in FeatureMutations
                                      THEN "m_getcoll"
                                      ELSE IF r.assets THEN "i_getcoll"
                                      ELSE "f_getcoll"]
                 ELSE IF redirects(r.op)
                 THEN [r EXCEPT !.pc = "done", !.status = "Redirect",
                                !.location =
                                    Some(location_of(r.op, The(moved)))]
                 ELSE [r EXCEPT !.pc = "done", !.status = "NotFound",
                                !.detail = "moved"]]
        /\ UNCHANGED <<collections, tables, aliases, roles, privileges, items, nextId, nextItem, jobs, workers, conns>>

\* CollectionService::get_collection and the 200 / 404 answer
GetCollection(p) ==
    LET found == get_collection(req[p].name)
    IN  /\ req[p].pc = "get"
        /\ req' = [req EXCEPT ![p] =
              IF found = {}
              THEN [req[p] EXCEPT !.pc = "done", !.status = "NotFound"]
              ELSE [req[p] EXCEPT !.pc = "done", !.status = "Ok",
                                  !.result = found]]
        /\ UNCHANGED <<collections, tables, aliases, roles, privileges, items, nextId, nextItem, jobs, workers, conns>>

\* the service call behind a sub-resource GET: the collection is read,
\* 404 if there is none, and only its owner may list the shares
SubresourceRead(p) ==
    LET r == req[p]
        found == get_collection(r.name)
    IN  /\ r.pc = "sub_get"
        /\ req' = [req EXCEPT ![p] =
              IF found = {}
              THEN [r EXCEPT !.pc = "done", !.status = "NotFound"]
              ELSE IF r.op = "list_shares" /\ ~is_owner(The(found), r.user)
              THEN [r EXCEPT !.pc = "done", !.status = "Forbidden"]
              ELSE [r EXCEPT !.pc = "done", !.status = "Ok",
                             !.result = found,
                             !.shares = IF r.op = "list_shares"
                                        THEN list_shares(The(found))
                                        ELSE {}]]
        /\ UNCHANGED <<collections, tables, aliases, roles, privileges, items, nextId, nextItem, jobs, workers, conns>>

----------------------------------------------------------------------------
(* Sharing *)

\* add_share (POST .../sharing) and remove_share (DELETE
\* .../sharing/{principal}) up to the alias check
ShareHandler(p, op, user, collection_id, principal, permission) ==
    /\ req[p].pc = "idle"
    /\ req' = [req EXCEPT ![p] =
          [Idle EXCEPT !.op = op, !.user = user, !.name = collection_id,
                       !.principal = principal, !.permission = permission,
                       !.pc = "alias"]]
    /\ UNCHANGED <<collections, tables, aliases, roles, privileges, items, nextId, nextItem, jobs, workers, conns>>

names_valid_unchecked(schema, role) == TRUE

\* grant_table_privileges and revoke_table_privileges validate the schema
\* and the role, not the table
names_valid(schema, role) ==
    is_valid_role_name(schema) /\ is_valid_role_name(role)

\* get_collection and the owner check of add_share and remove_share;
\* remove_share goes on to revoke_table_privileges without looking the
\* role up
ShareGetCollection(p) ==
    LET r == req[p]
        found == get_collection(r.name)
    IN  /\ r.pc = "share"
        /\ req' = [req EXCEPT ![p] =
              IF found = {}
              THEN Finish(p, "NotFound", "collection", None)
              ELSE IF ~is_owner(The(found), r.user)
              THEN Finish(p, "Forbidden", "none", None)
              ELSE IF r.op = "add_share"
              THEN [r EXCEPT !.coll = found, !.pc = "role_exists"]
              ELSE IF ~names_valid(The(found).schema_name, r.principal)
              THEN Finish(p, "BadRequest", "role", None)
              ELSE [r EXCEPT !.coll = found, !.pc = "revoke"]]
        /\ UNCHANGED <<collections, tables, aliases, roles, privileges, items, nextId, nextItem, jobs, workers, conns>>

\* add_share: role_exists(principal), then the validation that opens
\* grant_table_privileges
RoleExists(p) ==
    LET r == req[p]
    IN  /\ r.pc = "role_exists"
        /\ req' = [req EXCEPT ![p] =
              IF ~role_exists(r.principal)
              THEN Finish(p, "NotFound", "role", None)
              ELSE IF ~names_valid(The(r.coll).schema_name, r.principal)
              THEN Finish(p, "BadRequest", "role", None)
              ELSE [r EXCEPT !.pc = "grant_usage"]]
        /\ UNCHANGED <<collections, tables, aliases, roles, privileges, items, nextId, nextItem, jobs, workers, conns>>

\* GRANT USAGE ON SCHEMA <schema> TO <role>, on the pool
GrantUsage(p) ==
    LET r == req[p]
        c == The(r.coll)
    IN  /\ r.pc = "grant_usage"
        /\ IF SchemaExists(c.schema_name) /\ role_exists(r.principal)
           THEN /\ privileges' = privileges \cup
                      {Grant(c.schema_name, <<>>, r.principal, "USAGE")}
                /\ req' = [req EXCEPT ![p].pc = "grant_table"]
           ELSE /\ req' = [req EXCEPT ![p] =
                      Finish(p, "Database", "undefined_object", None)]
                /\ UNCHANGED privileges
        /\ UNCHANGED <<collections, tables, aliases, roles, items, nextId, nextItem, jobs, workers, conns>>

\* GRANT <privileges> ON <schema>.<table> TO <role>, on the pool
GrantTable(p) ==
    LET r == req[p]
        c == The(r.coll)
        ref == TableRef(c.schema_name, c.table_name)
    IN  /\ r.pc = "grant_table"
        /\ ~TablePending(p, ref)
        /\ IF TableExists(ref) /\ role_exists(r.principal)
           THEN /\ privileges' = privileges \cup
                      {Grant(c.schema_name, c.table_name, r.principal, t) :
                          t \in privileges_of(r.permission)}
                /\ req' = [req EXCEPT ![p] = Finish(p, "Ok", "none", None)]
           ELSE /\ req' = [req EXCEPT ![p] =
                      Finish(p, "Database",
                             IF TableExists(ref) THEN "undefined_object"
                             ELSE "undefined_table", None)]
                /\ UNCHANGED privileges
        /\ UNCHANGED <<collections, tables, aliases, roles, items, nextId, nextItem, jobs, workers, conns>>

\* REVOKE ALL ON <schema>.<table> FROM <role>, on the pool: the backend
\* rejects a table or a role that does not exist
RevokeTable(p) ==
    LET r == req[p]
        c == The(r.coll)
        ref == TableRef(c.schema_name, c.table_name)
    IN  /\ r.pc = "revoke"
        /\ ~TablePending(p, ref)
        /\ IF TableExists(ref) /\ role_exists(r.principal)
           THEN /\ privileges' =
                      {g \in privileges :
                          ~ /\ g.schema = c.schema_name
                            /\ g.table = c.table_name
                            /\ g.grantee = r.principal}
                /\ req' = [req EXCEPT ![p] = Finish(p, "Ok", "none", None)]
           ELSE /\ req' = [req EXCEPT ![p] =
                      Finish(p, "Database",
                             IF TableExists(ref) THEN "undefined_object"
                             ELSE "undefined_table", None)]
                /\ UNCHANGED privileges
        /\ UNCHANGED <<collections, tables, aliases, roles, items, nextId, nextItem, jobs, workers, conns>>

----------------------------------------------------------------------------
(* POST /collections/{collection_id}/items *)

ItemsTable == TableRef(<<"spatialvault">>, <<"items">>)

\* the properties of a feature or item: a document of top-level members,
\* as a set of <<key, value>> pairs with one pair per key
CreatedProps == {<<"title", "Created">>}
PatchProps == {<<"title", "Patched">>}

\* a || b of two jsonb documents: the members of b replace those of a
merge(a, b) == {m \in a : \A n \in b : n[1] # m[1]} \cup b

\* a row as create_feature and create_item insert it (the body's properties)
ItemRow(id, ref, collection_id, version) ==
    [id |-> id, schema |-> ref.schema, table |-> ref.table,
     collection_id |-> collection_id, version |-> version,
     properties |-> CreatedProps]

\* version = version + 1 of the collection row
bump(row) == [row EXCEPT !.version = row.version + 1]

\* handlers::create_feature
CreateFeatureHandler(p, user, collection_id, assets) ==
    /\ req[p].pc = "idle"
    /\ nextItem + InFlightItems < MaxItems
    /\ req' = [req EXCEPT ![p] =
          [Idle EXCEPT !.op = "create_feature", !.user = user,
                       !.name = collection_id, !.assets = assets,
                       !.pc = "alias"]]
    /\ UNCHANGED <<collections, tables, aliases, roles, privileges, items, nextId, nextItem, jobs, workers, conns>>

\* FeatureService::create_feature: the collection is read, and a collection
\* that is not a vector one is handed to create_item by the handler
FeatureGetCollection(p) ==
    LET found == get_collection(req[p].name)
    IN  /\ req[p].pc = "f_getcoll"
        /\ req' = [req EXCEPT ![p] =
              IF found = {}
              THEN Finish(p, "NotFound", "none", None)
              ELSE IF The(found).collection_type # "vector"
              THEN [req[p] EXCEPT !.pc = "i_getcoll"]
              ELSE [req[p] EXCEPT !.coll = found, !.pc = "f_insert"]]
        /\ UNCHANGED <<collections, tables, aliases, roles, privileges, items, nextId, nextItem, jobs, workers, conns>>

\* INSERT INTO schema.table (geometry, properties), run on the pool
FeatureInsert(p) ==
    LET r == req[p]
        c == The(r.coll)
        ref == TableRef(c.schema_name, c.table_name)
    IN  /\ r.pc = "f_insert"
        /\ ~TablePending(p, ref)
        /\ IF TableExists(ref)
           THEN /\ items' = items \cup
                      {ItemRow(nextItem + 1, ref, 0, InitialVersion)}
                /\ nextItem' = nextItem + 1
                /\ req' = [req EXCEPT ![p] =
                      [r EXCEPT !.feature = Some(ItemRow(nextItem + 1, ref,
                                                  0, InitialVersion)),
                                !.pc = "f_bump"]]
           ELSE /\ req' = [req EXCEPT ![p] =
                      Finish(p, "Database", "undefined_table", None)]
                /\ UNCHANGED <<items, nextItem>>
        /\ UNCHANGED <<collections, tables, aliases, roles, privileges, nextId, jobs, workers, conns>>

\* UPDATE spatialvault.collections SET version = version + 1
\* WHERE canonical_name = $1, run on the pool
FeatureBump(p) ==
    LET r == req[p]
        found == get_collection(r.name)
    IN  /\ r.pc = "f_bump"
        /\ VersionRoom(found)
        /\ IF found = {}
           THEN /\ req' = [req EXCEPT ![p] = Finish(p, "Ok", "none", None)]
                /\ UNCHANGED collections
           ELSE IF Locked(p, The(found).id)
           THEN /\ req' = [req EXCEPT ![p] =
                      [r EXCEPT !.pc = "f_bumpwait", !.target = The(found).id,
                                !.waited = TRUE]]
                /\ UNCHANGED collections
           ELSE /\ req' = [req EXCEPT ![p] = Finish(p, "Ok", "none", None)]
                /\ collections' = (collections \ found) \cup {bump(The(found))}
        /\ UNCHANGED <<tables, aliases, roles, privileges, items, nextId, nextItem, jobs, workers, conns>>

\* the same statement, resumed when the row lock is released
FeatureBumpResume(p) ==
    LET r == req[p]
        found == {c \in collections : /\ c.id = r.target
                                      /\ c.canonical_name = r.name}
    IN  /\ r.pc = "f_bumpwait"
        /\ VersionRoom(found)
        /\ ~Locked(p, r.target)
        /\ req' = [req EXCEPT ![p] = Finish(p, "Ok", "none", None)]
        /\ collections' = (collections \ found) \cup {bump(c) : c \in found}
        /\ UNCHANGED <<tables, aliases, roles, privileges, items, nextId, nextItem, jobs, workers, conns>>

\* FeatureService::create_item up to the start of its transaction
ItemGetCollection(p) ==
    LET found == get_collection(req[p].name)
    IN  /\ req[p].pc = "i_getcoll"
        /\ req' = [req EXCEPT ![p] =
              IF found = {}
              THEN Finish(p, "NotFound", "none", None)
              ELSE IF The(found).collection_type = "vector"
              THEN Finish(p, "BadRequest", "vector", None)
              ELSE [req[p] EXCEPT !.coll = found, !.pc = "i_insert"]]
        /\ UNCHANGED <<collections, tables, aliases, roles, privileges, items, nextId, nextItem, jobs, workers, conns>>

\* INSERT INTO spatialvault.items (id, collection_id, ...): the foreign key
\* needs the collection row and key-share locks it
ItemInsert(p) ==
    LET r == req[p]
        c == The(r.coll)
    IN  /\ r.pc = "i_insert"
        /\ ~Locked(p, c.id)
        /\ IF \E d \in collections : d.id = c.id
           THEN /\ req' = [req EXCEPT ![p] =
                      [r EXCEPT !.newitem = Some(ItemRow(nextItem + 1,
                                     ItemsTable, c.id, InitialVersion)),
                                !.keyshare = {c.id}, !.pc = "i_bump"]]
                /\ nextItem' = nextItem + 1
           ELSE /\ req' = [req EXCEPT ![p] =
                      Finish(p, "Database", "foreign_key_violation", None)]
                /\ UNCHANGED nextItem
        /\ UNCHANGED <<collections, tables, aliases, roles, privileges, items, nextId, jobs, workers, conns>>

\* UPDATE spatialvault.collections SET version = version + 1 WHERE id = $1
ItemBump(p) ==
    LET r == req[p]
        found == {c \in collections : c.id = The(r.coll).id}
    IN  /\ r.pc = "i_bump"
        /\ VersionRoom(found)
        /\ ~Locked(p, The(r.coll).id)
        /\ req' = [req EXCEPT ![p] =
              [r EXCEPT !.cur = found, !.newrow = {bump(c) : c \in found},
                        !.pc = "commit"]]
        /\ UNCHANGED <<collections, tables, aliases, roles, privileges, items, nextId, nextItem, jobs, workers, conns>>

----------------------------------------------------------------------------
(* PATCH, PUT and DELETE /collections/{collection_id}/items/{feature_id} *)

\* handlers::update_feature, replace_feature, delete_feature up to the
\* alias check; If-Match is optional
FeatureMutationHandler(p, op, user, collection_id, feature_id, expected_version, geometry, assets, properties) ==
    /\ req[p].pc = "idle"
    /\ req' = [req EXCEPT ![p] =
          [Idle EXCEPT !.op = op, !.user = user, !.name = collection_id,
                       !.feature_id = feature_id,
                       !.expected = expected_version,
                       !.geometry = geometry, !.assets = assets,
                       !.properties = properties,
                       !.pc = "alias"]]
    /\ UNCHANGED <<collections, tables, aliases, roles, privileges, items, nextId, nextItem, jobs, workers, conns>>

\* the handler goes straight to replace_item when the body carries assets
item_call(r) == r.fallback \/ (r.op = "replace_feature" /\ r.assets)

\* Err(NotFound) of the first service call is answered by a second call to
\* update_item (only with assets or a datetime), replace_item, delete_item
falls_back(r) ==
    /\ ~item_call(r)
    /\ r.op = "update_feature" => r.assets

\* NotFound of a service call: the handler's fallback or the 404
NotFoundOrFallback(p) ==
    IF falls_back(req[p])
    THEN [req[p] EXCEPT !.pc = "m_getcoll", !.fallback = TRUE,
                        !.coll = None, !.store = None]
    ELSE Finish(p, "NotFound", "none", None)

\* the table the service call looks the row up in
store_of(r, collection) ==
    IF ~item_call(r) /\ collection.collection_type = "vector"
    THEN TableRef(collection.schema_name, collection.table_name)
    ELSE ItemsTable

\* FeatureService::get_collection at the head of every service call, and
\* the dispatch on the collection type
FeatureMutationGetCollection(p) ==
    LET r == req[p]
        found == get_collection(r.name)
    IN  /\ r.pc = "m_getcoll"
        /\ req' = [req EXCEPT ![p] =
              IF found = {}
              THEN NotFoundOrFallback(p)
              ELSE [r EXCEPT !.coll = found,
                             !.store = Some(store_of(r, The(found))),
                             !.pc = "m_select"]]
        /\ UNCHANGED <<collections, tables, aliases, roles, privileges, items, nextId, nextItem, jobs, workers, conns>>

\* the rows SELECT version FROM <store> WHERE id = $1 [AND collection_id = $2]
\* finds
stored_rows(r) ==
    {i \in items :
        /\ i.id = r.feature_id
        /\ TableRef(i.schema, i.table) = The(r.store)
        /\ The(r.store) = ItemsTable => i.collection_id = The(r.coll).id}

\* the version check on the locked row, then on to the write
AfterItemLock(p, row) ==
    IF ~version_matches(req[p].expected, row)
    THEN [Finish(p, "PreconditionFailed", "none", None) EXCEPT
             !.item = Some(row)]
    ELSE [req[p] EXCEPT !.item = Some(row), !.pc = "m_write"]

\* the outcome of SELECT ... FOR UPDATE once no other transaction is in
\* the way
ItemSelected(p) ==
    LET r == req[p]
        rows == stored_rows(r)
    IN  IF The(r.store) # ItemsTable /\ ~TableExists(The(r.store))
        THEN Finish(p, "Database", "undefined_table", None)
        ELSE IF rows = {}
        THEN NotFoundOrFallback(p)
        ELSE AfterItemLock(p, The(rows))

\* tx begin; SELECT version ... FOR UPDATE
FeatureSelectForUpdate(p) ==
    LET r == req[p]
        rows == stored_rows(r)
    IN  /\ r.pc = "m_select"
        /\ ~TablePending(p, The(r.store))
        /\ req' = [req EXCEPT ![p] =
              IF \/ \E i \in rows : ItemLocked(p, i.id)
                 \/ /\ rows # {}
                    /\ The(r.store) = ItemsTable
                    /\ CascadePending(p, The(r.coll).id)
              THEN [r EXCEPT !.pc = "m_lock", !.waited = TRUE]
              ELSE ItemSelected(p)]
        /\ UNCHANGED <<collections, tables, aliases, roles, privileges, items, nextId, nextItem, jobs, workers, conns>>

\* the blocked SELECT ... FOR UPDATE resumes on the row as it is now
FeatureAcquireLock(p) ==
    LET r == req[p]
    IN  /\ r.pc = "m_lock"
        /\ ~ItemLocked(p, r.feature_id)
        /\ ~CascadePending(p, The(r.coll).id)
        /\ ~TablePending(p, The(r.store))
        /\ req' = [req EXCEPT ![p] = ItemSelected(p)]
        /\ UNCHANGED <<collections, tables, aliases, roles, privileges, items, nextId, nextItem, jobs, workers, conns>>

\* update_vector_feature puts $2 into the statement for the geometry but
\* binds the feature id only
binds_all(r) ==
    ~(r.op = "update_feature" /\ r.geometry /\ The(r.store) # ItemsTable)

\* the row after the UPDATE: replace_vector_feature and replace_item_internal
\* set properties = $3 / $4; update_item_internal and update_item set
\* properties = COALESCE(properties, '{}') || $4 when the body has
\* properties; update_vector_feature builds its SET list from the version,
\* the timestamp and the geometry only
updated_row(r, row) ==
    IF r.op = "replace_feature"
    THEN [bump(row) EXCEPT !.properties = The(r.properties)]
    ELSE IF r.properties # None /\ The(r.store) = ItemsTable
    THEN [bump(row) EXCEPT !.properties = merge(@, The(r.properties))]
    ELSE bump(row)

\* UPDATE ... SET version = version + 1 ... WHERE id = $1 RETURNING ...,
\* or DELETE FROM ... WHERE id = $1
FeatureWrite(p) ==
    LET r == req[p]
        row == The(r.item)
    IN  /\ r.pc = "m_write"
        /\ (r.op # "delete_feature" /\ binds_all(r)) => VersionRoom(r.item)
        /\ req' = [req EXCEPT ![p] =
              IF r.op = "delete_feature"
              THEN [r EXCEPT !.delitem = TRUE, !.pc = "commit"]
              ELSE IF ~binds_all(r)
              THEN Finish(p, "Database", "bind_parameters", None)
              ELSE [r EXCEPT !.newitem = Some(updated_row(r, row)),
                             !.pc = "commit"]]
        /\ UNCHANGED <<collections, tables, aliases, roles, privileges, items, nextId, nextItem, jobs, workers, conns>>

----------------------------------------------------------------------------
(* ItemService *)

\* the rows of spatialvault.items with this id
item_rows(item_id) ==
    {i \in items : i.id = item_id /\ TableRef(i.schema, i.table) = ItemsTable}

\* ItemService::update_item: a single UPDATE spatialvault.items ... WHERE
\* id = $1 [AND version = $2] on the pool; no row returned is reported as
\* PreconditionFailed when a version was supplied and as NotFound otherwise
ItemServiceUpdateItem(p, item_id, expected_version) ==
    LET rows == item_rows(item_id)
        hit == {i \in rows : version_matches(expected_version, i)}
        r0 == [Idle EXCEPT !.op = "item_update", !.feature_id = item_id,
                           !.expected = expected_version, !.pc = "done"]
    IN  /\ req[p].pc = "idle"
        /\ \A i \in rows : /\ ~ItemLocked(p, i.id)
                            /\ ~CascadePending(p, i.collection_id)
        /\ VersionRoom(hit)
        /\ items' = (items \ hit) \cup {bump(i) : i \in hit}
        /\ req' = [req EXCEPT ![p] =
              IF hit # {}
              THEN [r0 EXCEPT !.status = "Ok", !.item = hit,
                              !.feature = {bump(i) : i \in hit}]
              ELSE IF expected_version # None
              THEN [r0 EXCEPT !.status = "PreconditionFailed"]
              ELSE [r0 EXCEPT !.status = "NotFound"]]
        /\ UNCHANGED <<collections, tables, aliases, roles, privileges, nextId, nextItem, jobs, workers, conns>>

----------------------------------------------------------------------------

ExpectedVersions == {None} \cup {Some(v) : v \in 1..MaxVersion}

(* Two concurrent catalog requests of the owner on one name: every kind of
   request in the first slot; creation, partial update and deletion,
   concurrent with them, in the second *)
Next ==
    \/ \E ctype \in CollectionTypes :
          CreateCollectionHandler("p1", U, <<"a">>, None, ctype)
    \/ CreateCollectionHandler("p2", U, <<"a">>, None, "vector")
    \/ \E ev \in ExpectedVersions :
          \/ \E new_name \in {None, Some(NameC)} :
                PatchCollectionHandler("p1", U, NameUA, ev, None, new_name)
          \/ PatchCollectionHandler("p2", U, NameUA, ev, None, None)
          \/ UpdateCollectionHandler("p1", U, NameUA, ev, NameUA, "t1")
          \/ \E id \in {NameUA, NameC} :
                DeleteCollectionHandler("p1", U, id, ev)
          \/ DeleteCollectionHandler("p2", U, NameUA, ev)
    \/ \E p \in Procs :
          \/ InsertRow(p)
          \/ CreateTable(p)
          \/ CreateIndex(p)
          \/ SelectForUpdate(p)
          \/ AcquireLock(p)
          \/ InsertAlias(p)
          \/ UpdateRow(p)
          \/ DropTable(p)
          \/ DeleteRow(p)
          \/ Commit(p)
          \/ BackendFailure(p)
          \/ Respond(p)

Spec == Init /\ [][Next]_vars

----------------------------------------------------------------------------
(* Filter compiler: Cql2Parser of src/src/api/features/query.rs *)

\* a cql2::Expr: kind is the variant, op the operator or the boolean, text
\* the characters of a property, literal or WKT, value a number, args the
\* children
Expr(kind, op, text, value, args) ==
    [kind |-> kind, op |-> op, text |-> text, value |-> value, args |-> args]

Operation(op, args) == Expr("operation", op, <<>>, 0, args)
Interval(interval) == Expr("interval", "", <<>>, 0, interval)
BBox(bbox) == Expr("bbox", "", <<>>, 0, bbox)
Property(property) == Expr("property", "", property, 0, <<>>)
Literal(s) == Expr("literal", "", s, 0, <<>>)
Float(f) == Expr("float", "", <<>>, f, <<>>)
Bool(b) == Expr("bool", IF b THEN "TRUE" ELSE "FALSE", <<>>, 0, <<>>)

\* AppResult<String>: the SQL text as a sequence of pieces, or BadRequest
\* with its message
SqlOk(sql) == [ok |-> TRUE, sql |-> sql, err |-> <<>>]
SqlErr(message) == [ok |-> FALSE, sql |-> <<>>, err |-> message]

Dot == "."
Quote == "'"

\* str::split(sep) collected into a Vec
RECURSIVE Split(_, _)
Split(s, sep) ==
    IF \A i \in 1..Len(s) : s[i] # sep
    THEN <<s>>
    ELSE LET i == CHOOSE k \in 1..Len(s) :
                      /\ s[k] = sep
                      /\ \A j \in 1..(k - 1) : s[j] # sep
         IN  <<SubSeq(s, 1, i - 1)>> \o Split(SubSeq(s, i + 1, Len(s)), sep)

\* [String]::join(sep)
RECURSIVE Join(_, _)
Join(parts, sep) ==
    IF Len(parts) = 0 THEN <<>>
    ELSE IF Len(parts) = 1 THEN parts[1]
    ELSE parts[1] \o sep \o Join(Tail(parts), sep)

\* s.replace('\'', "''")
RECURSIVE escape_quotes(_)
escape_quotes(s) ==
    IF Len(s) = 0 THEN <<>>
    ELSE (IF s[1] = Quote THEN <<Quote, Quote>> ELSE <<s[1]>>)
         \o escape_quotes(Tail(s))

\* str::to_lowercase on the operator names in use
to_lowercase(op) ==
    IF op = "NOT" THEN "not"
    ELSE IF op = "BETWEEN" THEN "between"
    ELSE IF op = "S_INTERSECTS" THEN "s_intersects"
    ELSE op

\* str::to_uppercase on the function names in use
to_uppercase(op) ==
    IF op = "f" THEN "F"
    ELSE IF op = "not" THEN "NOT"
    ELSE IF op = "between" THEN "BETWEEN"
    ELSE IF op = "s_intersects" THEN "S_INTERSECTS"
    ELSE op

\* property_to_sql
property_to_sql(property, prefix) ==
    LET parts == Split(property, Dot)
    IN  IF \E i \in 1..Len(property) : property[i] = Dot
        THEN IF parts[1] = <<"p", "r", "o", "p", "e", "r", "t", "i", "e", "s">>
             THEN prefix \o <<"properties->>'">>
                  \o Join(Tail(parts), <<"'->>">>) \o <<Quote>>
             ELSE prefix \o <<"\"">> \o parts[1] \o <<"\"">>
        ELSE IF property = <<"g", "e", "o", "m", "e", "t", "r", "y">>
        THEN prefix \o <<"geometry">>
        ELSE prefix \o <<"\"">> \o property \o <<"\"">>

\* the first Err of a Vec of results, as collect::<AppResult<Vec<_>>>()?
\* and a run of ? return it
first_err(parts) ==
    parts[CHOOSE i \in 1..Len(parts) :
              /\ ~parts[i].ok
              /\ \A j \in 1..(i - 1) : parts[j].ok]

\* the compiled children if all compiled, the first error otherwise
collect(parts, sql) ==
    IF \E i \in 1..Len(parts) : ~parts[i].ok
    THEN first_err(parts) ELSE SqlOk(sql)

\* the SQL texts of compiled children
sqls(parts) == [i \in 1..Len(parts) |-> parts[i].sql]

SpatialMapping ==
    [s_intersects |-> "ST_Intersects", s_contains |-> "ST_Contains",
     s_within |-> "ST_Within", s_crosses |-> "ST_Crosses",
     s_overlaps |-> "ST_Overlaps", s_touches |-> "ST_Touches",
     s_disjoint |-> "ST_Disjoint", s_equals |-> "ST_Equals"]

\* the SQL operator of the operators compiled by binary_op
BinaryOps ==
    [eq |-> "=", neq |-> "<>", lt |-> "<", gt |-> ">", lte |-> "<=",
     gte |-> ">=", like |-> "LIKE", ilike |-> "ILIKE"]

\* the operators spelled as their SQL operator
SymbolOps ==
    {"=", "<>", "!=", "<", ">", "<=", ">=", "+", "-", "*", "/", "%"}

sql_op_of(op_lower) ==
    IF op_lower \in DOMAIN BinaryOps THEN BinaryOps[op_lower]
    ELSE IF op_lower = "!=" THEN "<>"
    ELSE op_lower

RECURSIVE expr_to_postgis_sql(_, _)
RECURSIVE operation_to_sql(_, _, _)
RECURSIVE binary_op(_, _, _)
RECURSIVE binary_op_defaulted(_, _, _)

\* the children compiled in order
compiled(args, prefix) ==
    [i \in 1..Len(args) |-> expr_to_postgis_sql(args[i], prefix)]

binary_op_defaulted(args, sql_op, prefix) ==
    LET parts == compiled(args, prefix)
        left == IF Len(args) >= 1 THEN parts[1].sql ELSE <<"NULL">>
        right == IF Len(args) >= 2 THEN parts[2].sql ELSE <<"NULL">>
    IN  collect(parts, <<"(">> \o left \o <<" ", sql_op, " ">> \o right
                       \o <<")">>)

\* binary_op
binary_op(args, sql_op, prefix) ==
    IF Len(args) # 2
    THEN SqlErr(<<sql_op, " requires 2 arguments">>)
    ELSE LET parts == compiled(args, prefix)
         IN  collect(parts, <<"(">> \o parts[1].sql \o <<" ", sql_op, " ">>
                            \o parts[2].sql \o <<")">>)

\* operation_to_sql
operation_to_sql(op, args, prefix) ==
    LET op_lower == to_lowercase(op)
        parts == compiled(args, prefix)
    IN  IF op_lower = "and"
        THEN collect(parts, <<"(">> \o Join(sqls(parts), <<" AND ">>)
                            \o <<")">>)
        ELSE IF op_lower = "or"
        THEN collect(parts, <<"(">> \o Join(sqls(parts), <<" OR ">>)
                            \o <<")">>)
        ELSE IF op_lower = "not"
        THEN IF Len(args) # 1
             THEN SqlErr(<<"NOT", " requires 1 argument">>)
             ELSE collect(parts, <<"NOT (">> \o parts[1].sql \o <<")">>)
        ELSE IF op_lower \in SymbolOps \cup DOMAIN BinaryOps
        THEN binary_op(args, sql_op_of(op_lower), prefix)
        ELSE IF op_lower = "between"
        THEN IF Len(args) # 3
             THEN SqlErr(<<"BETWEEN", " requires 3 arguments">>)
             ELSE collect(parts, parts[1].sql \o <<" BETWEEN ">>
                                 \o parts[2].sql \o <<" AND ">>
                                 \o parts[3].sql)
        ELSE IF op_lower = "in"
        THEN IF Len(args) < 2
             THEN SqlErr(<<"IN", " requires at least 2 arguments">>)
             ELSE collect(parts, parts[1].sql \o <<" IN (">>
                                 \o Join(Tail(sqls(parts)), <<", ">>)
                                 \o <<")">>)
        ELSE IF op_lower \in {"isnull", "is null"}
        THEN IF Len(args) # 1
             THEN SqlErr(<<"IS NULL", " requires 1 argument">>)
             ELSE collect(parts, parts[1].sql \o <<" IS NULL">>)
        ELSE IF op_lower \in DOMAIN SpatialMapping
        THEN IF Len(args) # 2
             THEN SqlErr(<<op, " requires 2 arguments">>)
             ELSE collect(parts, <<SpatialMapping[op_lower], "(">>
                                 \o parts[1].sql \o <<", ">>
                                 \o parts[2].sql \o <<")">>)
        ELSE IF op_lower = "s_dwithin"
        THEN IF Len(args) # 3
             THEN SqlErr(<<"S_DWITHIN", " requires 3 arguments">>)
             ELSE collect(parts, <<"ST_DWithin(">> \o parts[1].sql
                                 \o <<", ">> \o parts[2].sql \o <<", ">>
                                 \o parts[3].sql \o <<")">>)
        ELSE IF op_lower = "t_intersects"
        THEN IF Len(args) # 2
             THEN SqlErr(<<"T_INTERSECTS", " requires 2 arguments">>)
             ELSE collect(parts, <<"(">> \o parts[1].sql \o <<" && ">>
                                 \o parts[2].sql \o <<")">>)
        ELSE IF op_lower = "a_contains"
        THEN IF Len(args) # 2
             THEN SqlErr(<<"A_CONTAINS", " requires 2 arguments">>)
             ELSE collect(parts, <<"(">> \o parts[1].sql \o <<" @> ">>
                                 \o parts[2].sql \o <<")">>)
        ELSE collect(parts, <<to_uppercase(op), "(">>
                            \o Join(sqls(parts), <<", ">>) \o <<")">>)

\* expr_to_postgis_sql
expr_to_postgis_sql(expr, prefix) ==
    LET parts == compiled(expr.args, prefix)
    IN  IF expr.kind = "bool" THEN SqlOk(<<expr.op>>)
        ELSE IF expr.kind = "float" THEN SqlOk(<<ToString(expr.value)>>)
        ELSE IF expr.kind = "literal"
        THEN SqlOk(<<Quote>> \o escape_quotes(expr.text) \o <<Quote>>)
        ELSE IF expr.kind = "property"
        THEN SqlOk(property_to_sql(expr.text, prefix))
        ELSE IF expr.kind = "null" THEN SqlOk(<<"NULL">>)
        ELSE IF expr.kind = "date"
        THEN collect(parts, <<"DATE ">> \o parts[1].sql)
        ELSE IF expr.kind = "timestamp"
        THEN collect(parts, <<"TIMESTAMP ">> \o parts[1].sql)
        ELSE IF expr.kind = "interval"
        THEN IF Len(expr.args) # 2
             THEN SqlErr(<<"Interval", " must have 2 elements">>)
             ELSE collect(parts, <<"TSTZRANGE(">> \o parts[1].sql \o <<", ">>
                                 \o parts[2].sql \o <<")">>)
        ELSE IF expr.kind = "bbox"
        THEN IF Len(expr.args) < 4
             THEN SqlErr(<<"BBox", " must have at least 4 elements">>)
             ELSE collect(parts, <<"ST_MakeEnvelope(">> \o parts[1].sql
                                 \o <<", ">> \o parts[2].sql \o <<", ">>
                                 \o parts[3].sql \o <<", ">> \o parts[4].sql
                                 \o <<", 4326)">>)
        ELSE IF expr.kind = "geometry"
        THEN SqlOk(<<"ST_GeomFromText('">> \o escape_quotes(expr.text)
                   \o <<"', 4326)">>)
        ELSE IF expr.kind = "array"
        THEN collect(parts, <<"ARRAY[">> \o Join(sqls(parts), <<", ">>)
                            \o <<"]">>)
        ELSE operation_to_sql(expr.op, expr.args, prefix)

\* list_features with a filter parameter, up to the compilation; the
\* filter arrives as the tree the cql2 crate parsed
ListFeaturesFilter(p, expr) ==
    /\ req[p].pc = "idle"
    /\ req' = [req EXCEPT ![p] =
          [Idle EXCEPT !.op = "list_features", !.filter = Some(expr),
                       !.pc = "compile"]]
    /\ UNCHANGED <<collections, tables, aliases, roles, privileges, items, nextId, nextItem, jobs, workers, conns>>

\* Cql2Parser::parse_to_sql(filter_expr, ""): the predicate joins the WHERE
\* clauses, a BadRequest ends the request
CompileFilter(p) ==
    LET r == req[p]
        compiled_filter == expr_to_postgis_sql(The(r.filter), <<>>)
    IN  /\ r.pc = "compile"
        /\ req' = [req EXCEPT ![p] =
              IF compiled_filter.ok
              THEN [r EXCEPT !.pc = "done", !.status = "Ok",
                             !.sql = Some(compiled_filter.sql)]
              ELSE [r EXCEPT !.pc = "done", !.status = "BadRequest",
                             !.detail = "filter",
                             !.error = compiled_filter.err]]
        /\ UNCHANGED <<collections, tables, aliases, roles, privileges, items, nextId, nextItem, jobs, workers, conns>>

----------------------------------------------------------------------------
(* Jobs: POST /processes/{process_id}/execution, GET and DELETE
   /jobs/{job_id}, and the worker that runs them.  Of a job row the model
   keeps id, process_id, owner, status and whether outputs are recorded;
   ids are handed out in the order of `created`. *)

\* the row of create_job; its status is the one create_job_response reports
JobRow(id, process_id, owner) ==
    [id |-> id, process_id |-> process_id, owner |-> owner,
     status |-> "accepted", outputs |-> FALSE]

\* the statement of poll_and_process_job holds the row lock of its
\* subquery (FOR UPDATE) until it has updated the row
JobLocked(id) ==
    \E w \in Workers : workers[w].pc = "claim" /\ workers[w].job = id

claimable_any == {j \in jobs : j.status = "accepted"}

\* WHERE status = 'accepted' ... FOR UPDATE SKIP LOCKED: a row that is
\* locked is passed over; a row whose status changed while the statement
\* ran is checked again under its lock
claimable == {j \in jobs : j.status = "accepted" /\ ~JobLocked(j.id)}

\* UPDATE ... SET status = $2 ... WHERE id = $1
update_job_status(job_id, status) ==
    {IF j.id = job_id THEN [j EXCEPT !.status = status] ELSE j : j \in jobs}

\* UPDATE ... SET outputs = $2, status = 'successful' ... WHERE id = $1
set_job_outputs(job_id) ==
    {IF j.id = job_id
       THEN [j EXCEPT !.status = "successful", !.outputs = TRUE]
       ELSE j : j \in jobs}

\* the rows of WHERE id = $1 AND owner = $2 AND status IN ('accepted',
\* 'running')
dismissable(username, job_id) ==
    {j \in jobs : /\ j.id = job_id
                  /\ j.owner = username
                  /\ j.status \in {"accepted", "running"}}

\* execute_import_raster, execute_import_pointcloud, get_job, dismiss_job
JobHandler(p, op, user, process_id, job_id) ==
    /\ req[p].pc = "idle"
    /\ req' = [req EXCEPT ![p] =
          [Idle EXCEPT !.op = op, !.user = user, !.ctype = process_id,
                       !.job_id = job_id, !.pc = "job"]]
    /\ UNCHANGED <<collections, tables, aliases, roles, privileges, items, nextId, nextItem, jobs, workers, conns>>

\* ProcessService::create_job: the new row, 201 with the job id
CreateJob(p) ==
    LET r == req[p]
        id == Cardinality(jobs) + 1
    IN  /\ r.pc = "job"
        /\ r.op = "create_job"
        /\ Cardinality(jobs) < MaxJobs
        /\ jobs' = jobs \cup {JobRow(id, r.ctype, r.user)}
        /\ req' = [req EXCEPT ![p] =
              [Finish(p, "Ok", "none", None) EXCEPT !.job_id = id]]
        /\ UNCHANGED <<collections, tables, aliases, roles, privileges, items, nextId, nextItem, workers, conns>>

\* SELECT * FROM spatialvault.processes_jobs WHERE id = $1 AND owner = $2
get_job(username, job_id) ==
    {j \in jobs : j.id = job_id /\ j.owner = username}

\* handlers::get_job: the row of this id and owner, or NotFound
GetJob(p) ==
    LET r == req[p]
        found == get_job(r.user, r.job_id)
    IN  /\ r.pc = "job"
        /\ r.op = "get_job"
        /\ req' = [req EXCEPT ![p] =
              IF found = {}
                THEN Finish(p, "NotFound", "job", None)
                ELSE [Finish(p, "Ok", "none", None) EXCEPT !.job = found]]
        /\ UNCHANGED <<collections, tables, aliases, roles, privileges, items, nextId, nextItem, jobs, workers, conns>>

\* ProcessService::dismiss_job: NotFound when no row was updated; the
\* update waits for a row lock
DismissJob(p) ==
    LET r == req[p]
        rows == dismissable(r.user, r.job_id)
    IN  /\ r.pc = "job"
        /\ r.op = "dismiss_job"
        /\ ~JobLocked(r.job_id)
        /\ jobs' = {IF j \in rows THEN [j EXCEPT !.status = "dismissed"]
                    ELSE j : j \in jobs}
        /\ req' = [req EXCEPT ![p] =
              IF rows = {} THEN Finish(p, "NotFound", "job", None)
              ELSE Finish(p, "Ok", "none", None)]
        /\ UNCHANGED <<collections, tables, aliases, roles, privileges, items, nextId, nextItem, workers, conns>>

\* the progress reported by process_import_raster and
\* process_import_pointcloud before each of their steps
ProgressSteps == <<5, 10, 30, 40, 60, 70, 90>>

\* the subquery of poll_and_process_job: the oldest claimable job, locked
\* (with no such job the worker sleeps and polls again)
WorkerSelect(w) ==
    /\ workers[w].pc = "poll"
    /\ \E j \in claimable :
          /\ \A k \in claimable : j.id <= k.id
          /\ workers' = [workers EXCEPT ![w] =
                [pc |-> "claim", job |-> j.id, step |-> 0]]
    /\ UNCHANGED <<collections, tables, aliases, roles, privileges, items, nextId, nextItem, jobs, conns, req>>

\* the update of poll_and_process_job: the job is running and is handed
\* to its processing routine
WorkerClaim(w) ==
    /\ workers[w].pc = "claim"
    /\ jobs' = update_job_status(workers[w].job, "running")
    /\ workers' = [workers EXCEPT ![w].pc = "work"]
    /\ UNCHANGED <<collections, tables, aliases, roles, privileges, items, nextId, nextItem, conns, req>>

\* update_job_status(job_id, "running", message, progress) before a step
\* of the import; step 4 (the conversion) is skipped for a file that needs
\* none
WorkerProgress(w) ==
    /\ workers[w].pc = "work"
    /\ workers[w].step < Len(ProgressSteps)
    /\ ~JobLocked(workers[w].job)
    /\ \E next \in {workers[w].step + 1} \cup
                   (IF workers[w].step = 3 THEN {5} ELSE {}) :
          workers' = [workers EXCEPT ![w].step = next]
    /\ jobs' = update_job_status(workers[w].job, "running")
    /\ UNCHANGED <<collections, tables, aliases, roles, privileges, items, nextId, nextItem, conns, req>>

\* a step of the import fails (the collection, the source file, the
\* conversion, the upload, the records): the routine returns Err
WorkerFails(w) ==
    /\ workers[w].pc = "work"
    /\ workers' = [workers EXCEPT ![w].pc = "err"]
    /\ UNCHANGED <<collections, tables, aliases, roles, privileges, items, nextId, nextItem, jobs, conns, req>>

\* the routine returns its outputs
WorkerDone(w) ==
    /\ workers[w].pc = "work"
    /\ workers[w].step = Len(ProgressSteps)
    /\ workers' = [workers EXCEPT ![w].pc = "ok"]
    /\ UNCHANGED <<collections, tables, aliases, roles, privileges, items, nextId, nextItem, jobs, conns, req>>

\* Ok(outputs) => set_job_outputs
WorkerSetOutputs(w) ==
    /\ workers[w].pc = "ok"
    /\ ~JobLocked(workers[w].job)
    /\ jobs' = set_job_outputs(workers[w].job)
    /\ workers' = [workers EXCEPT ![w] = Polling]
    /\ UNCHANGED <<collections, tables, aliases, roles, privileges, items, nextId, nextItem, conns, req>>

\* Err(e) => update_job_status(job_id, "failed", ...)
WorkerSetFailed(w) ==
    /\ workers[w].pc = "err"
    /\ ~JobLocked(workers[w].job)
    /\ jobs' = update_job_status(workers[w].job, "failed")
    /\ workers' = [workers EXCEPT ![w] = Polling]
    /\ UNCHANGED <<collections, tables, aliases, roles, privileges, items, nextId, nextItem, conns, req>>

\* the last statement fails (`.await?`): poll_and_process_job returns the
\* error, run logs it, sleeps and polls again
WorkerWriteFails(w) ==
    /\ workers[w].pc \in {"ok", "err"}
    /\ workers' = [workers EXCEPT ![w] = Polling]
    /\ UNCHANGED <<collections, tables, aliases, roles, privileges, items, nextId, nextItem, jobs, conns, req>>

----------------------------------------------------------------------------

(* Database::with_role.  No handler of the repository calls it; the model
   runs it as a caller would, two calls at a time over a pool of
   connections.  The role of SET LOCAL ROLE ends with its transaction and
   is not part of a connection's session state. *)

\* the connections no call holds
FreeConns ==
    Conns \ UNION {req[p].conn \cup req[p].tx : p \in Procs}

\* with_role up to pool.acquire(): the username is validated first
WithRole(p, username) ==
    /\ req[p].pc = "idle"
    /\ req' = [req EXCEPT ![p] =
          IF is_valid_role_name(username)
          THEN [Idle EXCEPT !.op = "with_role", !.user = username,
                            !.pc = "wr_acquire"]
          ELSE [Finish(p, "BadRequest", "username", None)
                    EXCEPT !.op = "with_role", !.user = username]]
    /\ UNCHANGED <<collections, tables, aliases, roles, privileges, items, nextId, nextItem, jobs, workers, conns>>

\* let mut conn = self.pool.acquire().await?
WrAcquire(p) ==
    /\ req[p].pc = "wr_acquire"
    /\ \E c \in FreeConns :
          req' = [req EXCEPT ![p] = [@ EXCEPT !.conn = Some(c),
                                              !.pc = "wr_set_role"]]
    /\ UNCHANGED <<collections, tables, aliases, roles, privileges, items, nextId, nextItem, jobs, workers, conns>>

\* conn.execute("SET ROLE <username>").await?: the session role of the
\* connection; the backend rejects a role that does not exist, and the
\* connection goes back to the pool as it is
WrSetRole(p) ==
    LET r == req[p]
    IN  /\ r.pc = "wr_set_role"
        /\ IF role_exists(r.user)
           THEN /\ conns' = [conns EXCEPT ![The(r.conn)] = Some(r.user)]
                /\ req' = [req EXCEPT ![p] = [r EXCEPT !.pc = "wr_begin"]]
           ELSE /\ conns' = conns
                /\ req' = [req EXCEPT ![p] =
                      [Finish(p, "Database", "undefined_object", None)
                           EXCEPT !.conn = None]]
        /\ UNCHANGED <<collections, tables, aliases, roles, privileges, items, nextId, nextItem, jobs, workers>>

\* let mut tx = self.pool.begin().await?: a second connection of the pool;
\* with none free the acquire times out and `?` returns the error, which
\* drops conn back into the pool
WrBegin(p) ==
    LET r == req[p]
    IN  /\ r.pc = "wr_begin"
        /\ \/ \E t \in FreeConns :
                 req' = [req EXCEPT ![p] = [r EXCEPT !.tx = Some(t),
                                                     !.pc = "wr_set_local"]]
           \/ /\ FreeConns = {}
              /\ req' = [req EXCEPT ![p] =
                    [Finish(p, "Database", "pool_timed_out", None)
                         EXCEPT !.conn = None]]
        /\ UNCHANGED <<collections, tables, aliases, roles, privileges, items, nextId, nextItem, jobs, workers, conns>>

\* tx.execute("SET LOCAL ROLE <username>").await?
WrSetLocal(p) ==
    /\ req[p].pc = "wr_set_local"
    /\ req' = [req EXCEPT ![p] = [@ EXCEPT !.pc = "wr_operation"]]
    /\ UNCHANGED <<collections, tables, aliases, roles, privileges, items, nextId, nextItem, jobs, workers, conns>>

\* operation(pool).await: the caller's operation on a third connection of
\* the pool, or its error when none is free; its result is kept and the
\* transaction is dropped at the end of the block
WrOperation(p) ==
    LET r == req[p]
    IN  /\ r.pc = "wr_operation"
        /\ req' = [req EXCEPT ![p] =
              [r EXCEPT !.tx = None, !.pc = "wr_reset",
                        !.detail = IF FreeConns = {} THEN "pool_timed_out"
                                   ELSE "none"]]
        /\ UNCHANGED <<collections, tables, aliases, roles, privileges, items, nextId, nextItem, jobs, workers, conns>>

\* conn.execute("RESET ROLE").await?; result
WrReset(p) ==
    LET r == req[p]
    IN  /\ r.pc = "wr_reset"
        /\ conns' = [conns EXCEPT ![The(r.conn)] = None]
        /\ req' = [req EXCEPT ![p] =
              [Finish(p, IF r.detail = "none" THEN "Ok" ELSE "Database",
                      r.detail, None) EXCEPT !.conn = None]]
        /\ UNCHANGED <<collections, tables, aliases, roles, privileges, items, nextId, nextItem, jobs, workers>>

----------------------------------------------------------------------------

(* One request at a time, over the whole input domain *)
SeqNext ==
    \/ \E user \in Users, id \in CreateIds, owner \in {None, Some(G)},
          ctype \in CollectionTypes :
          CreateCollectionHandler("p1", user, id, owner, ctype)
    \/ InsertRow("p1")
    \/ CreateTable("p1")
    \/ CreateIndex("p1")
    \/ \E user \in Users, id \in PathIds, ev \in ExpectedVersions,
          title \in {None, Some("t1")},
          new_name \in {None} \cup {Some(n) : n \in NewIds} :
          PatchCollectionHandler("p1", user, id, ev, title, new_name)
    \/ \E user \in Users, id \in PathIds, ev \in ExpectedVersions,
          body_id \in PathIds :
          UpdateCollectionHandler("p1", user, id, ev, body_id, "t1")
    \/ \E user \in Users, id \in PathIds, ev \in ExpectedVersions :
          DeleteCollectionHandler("p1", user, id, ev)
    \/ SelectForUpdate("p1")
    \/ InsertAlias("p1")
    \/ UpdateRow("p1")
    \/ DropTable("p1")
    \/ DeleteRow("p1")
    \/ Commit("p1")
    \/ BackendFailure("p1")
    \/ Respond("p1")
    \/ \E user \in Users, id \in PathIds :
          GetCollectionHandler("p1", user, id)
    \/ CheckAliasRedirect("p1")
    \/ GetCollection("p1")
    \/ \E user \in Users, id \in PathIds, assets \in BOOLEAN :
          CreateFeatureHandler("p1", user, id, assets)
    \/ FeatureGetCollection("p1")
    \/ FeatureInsert("p1")
    \/ FeatureBump("p1")
    \/ ItemGetCollection("p1")
    \/ ItemInsert("p1")
    \/ ItemBump("p1")

SeqSpec == Init /\ [][SeqNext]_vars

(* One collection with its features or items: the owner's catalog requests
   and every kind of feature mutation in the first slot, feature creation
   and partial updates, concurrent with them, in the second *)
ItemNext ==
    \/ \E ctype \in CollectionTypes :
          CreateCollectionHandler("p1", U, <<"a">>, None, ctype)
    \/ InsertRow("p1")
    \/ CreateTable("p1")
    \/ CreateIndex("p1")
    \/ PatchCollectionHandler("p1", U, NameUA, None, Some("t1"), None)
    \/ DeleteCollectionHandler("p1", U, NameUA, None)
    \/ SelectForUpdate("p1")
    \/ AcquireLock("p1")
    \/ UpdateRow("p1")
    \/ DropTable("p1")
    \/ DeleteRow("p1")
    \/ \E assets \in BOOLEAN : CreateFeatureHandler("p2", U, NameUA, assets)
    \/ FeatureGetCollection("p2")
    \/ FeatureInsert("p2")
    \/ FeatureBump("p2")
    \/ FeatureBumpResume("p2")
    \/ ItemGetCollection("p2")
    \/ ItemInsert("p2")
    \/ ItemBump("p2")
    \/ \E feature_id \in 1..MaxItems, ev \in ExpectedVersions :
          \/ FeatureMutationHandler("p1", "update_feature", V, NameUA,
                                    feature_id, ev, TRUE, FALSE, None)
          \/ \E assets \in BOOLEAN :
                FeatureMutationHandler("p1", "replace_feature", V, NameUA,
                                       feature_id, ev, TRUE, assets,
                                       Some(CreatedProps))
          \/ FeatureMutationHandler("p1", "delete_feature", V, NameUA,
                                    feature_id, ev, FALSE, FALSE, None)
          \/ FeatureMutationHandler("p2", "update_feature", V, NameUA,
                                    feature_id, ev, FALSE, FALSE, None)
          \/ ItemServiceUpdateItem("p2", feature_id, ev)
    \/ \E p \in Procs :
          \/ Commit(p)
          \/ BackendFailure(p)
          \/ Respond(p)
          \/ CheckAliasRedirect(p)
          \/ FeatureMutationGetCollection(p)
          \/ FeatureSelectForUpdate(p)
          \/ FeatureAcquireLock(p)
          \/ FeatureWrite(p)

ItemSpec == Init /\ [][ItemNext]_vars

(* Renames and the reads that follow them: one collection that is created,
   renamed back and forth and deleted, and every kind of GET on both names *)
AliasNext ==
    \/ \E ctype \in CollectionTypes :
          CreateCollectionHandler("p1", U, <<"a">>, None, ctype)
    \/ InsertRow("p1")
    \/ CreateTable("p1")
    \/ CreateIndex("p1")
    \/ \E id \in PathIds, new_name \in NewIds :
          PatchCollectionHandler("p1", U, id, None, None, Some(new_name))
    \/ \E id \in PathIds : DeleteCollectionHandler("p1", U, id, None)
    \/ SelectForUpdate("p1")
    \/ InsertAlias("p1")
    \/ UpdateRow("p1")
    \/ DropTable("p1")
    \/ DeleteRow("p1")
    \/ Commit("p1")
    \/ BackendFailure("p1")
    \/ Respond("p1")
    \/ \E user \in Users, id \in PathIds :
          \/ GetCollectionHandler("p1", user, id)
          \/ \E op \in SubresourceGets :
                SubresourceHandler("p1", op, user, id)
    \/ CheckAliasRedirect("p1")
    \/ GetCollection("p1")
    \/ SubresourceRead("p1")

AliasSpec == Init /\ [][AliasNext]_vars

(* Requests that the caller may abandon at any point: the owner's catalog
   requests and the creation and change of features and items, one at a
   time *)
CancelNext ==
    \/ \E ctype \in CollectionTypes :
          CreateCollectionHandler("p1", U, <<"a">>, None, ctype)
    \/ InsertRow("p1")
    \/ CreateTable("p1")
    \/ CreateIndex("p1")
    \/ \E new_name \in {None, Some(NameC)} :
          PatchCollectionHandler("p1", U, NameUA, None, Some("t1"), new_name)
    \/ DeleteCollectionHandler("p1", U, NameUA, None)
    \/ SelectForUpdate("p1")
    \/ InsertAlias("p1")
    \/ UpdateRow("p1")
    \/ DropTable("p1")
    \/ DeleteRow("p1")
    \/ \E assets \in BOOLEAN : CreateFeatureHandler("p1", U, NameUA, assets)
    \/ CheckAliasRedirect("p1")
    \/ FeatureGetCollection("p1")
    \/ FeatureInsert("p1")
    \/ FeatureBump("p1")
    \/ ItemGetCollection("p1")
    \/ ItemInsert("p1")
    \/ ItemBump("p1")
    \/ \E feature_id \in 1..MaxItems, op \in {"replace_feature", "delete_feature"} :
          FeatureMutationHandler("p1", op, U, NameUA, feature_id, None,
                                 TRUE, FALSE,
                                 IF op = "replace_feature"
                                 THEN Some(CreatedProps) ELSE None)
    \/ FeatureMutationGetCollection("p1")
    \/ FeatureSelectForUpdate("p1")
    \/ FeatureWrite("p1")
    \/ Commit("p1")
    \/ Cancel("p1")
    \/ Respond("p1")

CancelSpec == Init /\ [][CancelNext]_vars

----------------------------------------------------------------------------
(* Optimistic concurrency of the catalog *)

\* the principals a share is asked for: V has a role once it has created a
\* collection, W never has one, Digit1 is not a valid role name
W == <<"w">>
Digit1 == <<"1">>
Principals == {V, W, Digit1}

\* the names U's collection is addressed by: as created, and as renamed
SharePaths == {NameUA, Digit1}

\* one request at a time: collections of U and V, U's collection u:a renamed
\* to 1, its shares granted, revoked and listed by U and by V, features
\* created and updated in it
ShareNext ==
    \/ \E user \in Users, id \in CreateIds, ctype \in CollectionTypes :
          CreateCollectionHandler("p1", user, id, None, ctype)
    \/ InsertRow("p1")
    \/ CreateTable("p1")
    \/ CreateIndex("p1")
    \/ PatchCollectionHandler("p1", U, NameUA, None, None, Some(Digit1))
    \/ InsertAlias("p1")
    \/ UpdateRow("p1")
    \/ \E id \in SharePaths : DeleteCollectionHandler("p1", U, id, None)
    \/ SelectForUpdate("p1")
    \/ DropTable("p1")
    \/ DeleteRow("p1")
    \/ Commit("p1")
    \/ Respond("p1")
    \/ \E user \in Users, principal \in Principals,
          permission \in Permissions :
          ShareHandler("p1", "add_share", user, NameUA, principal, permission)
    \/ \E user \in Users, principal \in Principals :
          ShareHandler("p1", "remove_share", user, NameUA, principal, "none")
    \/ \E user \in Users, op \in {"list_shares", "list_features"} :
          SubresourceHandler("p1", op, user, NameUA)
    \/ CheckAliasRedirect("p1")
    \/ ShareGetCollection("p1")
    \/ RoleExists("p1")
    \/ GrantUsage("p1")
    \/ GrantTable("p1")
    \/ RevokeTable("p1")
    \/ SubresourceRead("p1")
    \/ \E user \in Users, id \in SharePaths :
          CreateFeatureHandler("p1", user, id, FALSE)
    \/ FeatureGetCollection("p1")
    \/ FeatureInsert("p1")
    \/ FeatureBump("p1")
    \/ ItemGetCollection("p1")
    \/ ItemInsert("p1")
    \/ ItemBump("p1")
    \/ \E id \in SharePaths :
          FeatureMutationHandler("p1", "update_feature", V, id, 1, None,
                                 FALSE, FALSE, None)
    \/ FeatureMutationGetCollection("p1")
    \/ FeatureSelectForUpdate("p1")
    \/ FeatureWrite("p1")

ShareSpec == Init /\ [][ShareNext]_vars

\* The filters of the requests: every operator over 0..MaxArgs leaves and
\* every interval of 0..MaxArgs literals (Flat), and operators over up to
\* MaxNested children that compile or do not (Nested).
Filters ==
    LET Prop == Property(<<"p">>)
        Lit == Literal(<<"t">>)
        ArgLists(S, n) == UNION {[1..k -> S] : k \in 0..n}
        FilterOps ==
            {"and", "not", "NOT", "=", "+", "like", "between", "in",
             "s_intersects", "S_INTERSECTS", "s_dwithin", "f"}
        Flat ==
            {Operation(o, a) : o \in FilterOps,
                               a \in ArgLists({Prop}, MaxArgs)}
            \cup {Interval(a) : a \in ArgLists({Lit}, MaxArgs)}
        Kids ==
            {Prop, Operation("not", <<>>), Operation("not", <<Prop>>),
             Interval(<<Lit>>), Interval(<<Lit, Lit>>),
             Operation("=", <<Prop>>), Operation("=", <<Prop, Lit>>)}
        Nested ==
            {Operation(o, a) : o \in {"and", "not", "=", "t_intersects"},
                               a \in ArgLists(Kids, MaxNested)}
    IN  Flat \cup Nested

\* one request at a time: a filter is compiled for list_features
FilterNext ==
    \/ \E expr \in Filters : ListFeaturesFilter("p1", expr)
    \/ CompileFilter("p1")
    \/ Respond("p1")

FilterSpec == Init /\ [][FilterNext]_vars

\* the raster imports of one user, read and dismissed by the owner and by
\* another user, with two workers polling (process_import_pointcloud
\* reports the same steps as process_import_raster)
JobNext ==
    \/ JobHandler("p1", "create_job", U, "import-raster", 0)
    \/ \E user \in {U, V}, op \in {"get_job", "dismiss_job"},
          job_id \in 1..MaxJobs :
          JobHandler("p1", op, user, "none", job_id)
    \/ CreateJob("p1")
    \/ GetJob("p1")
    \/ DismissJob("p1")
    \/ Respond("p1")
    \/ \E w \in Workers :
          \/ WorkerSelect(w)
          \/ WorkerClaim(w)
          \/ WorkerProgress(w)
          \/ WorkerFails(w)
          \/ WorkerDone(w)
          \/ WorkerSetOutputs(w)
          \/ WorkerSetFailed(w)
          \/ WorkerWriteFails(w)

JobSpec == Init /\ [][JobNext]_vars

\* a step of worker w
WorkerStep(w) ==
    \/ WorkerSelect(w)
    \/ WorkerClaim(w)
    \/ WorkerProgress(w)
    \/ WorkerFails(w)
    \/ WorkerDone(w)
    \/ WorkerSetOutputs(w)
    \/ WorkerSetFailed(w)
    \/ WorkerWriteFails(w)

\* JobWorker::run loops for ever: a worker that can take a step takes one
JobFairSpec == JobSpec /\ \A w \in Workers : WF_vars(WorkerStep(w))

\* one collection of either type, its features or items, and PATCH and PUT
\* requests with and without properties
PatchNext ==
    \/ \E ctype \in CollectionTypes :
          CreateCollectionHandler("p1", U, <<"a">>, None, ctype)
    \/ InsertRow("p1")
    \/ CreateTable("p1")
    \/ CreateIndex("p1")
    \/ \E assets \in BOOLEAN : CreateFeatureHandler("p1", U, NameUA, assets)
    \/ FeatureGetCollection("p1")
    \/ FeatureInsert("p1")
    \/ FeatureBump("p1")
    \/ ItemGetCollection("p1")
    \/ ItemInsert("p1")
    \/ ItemBump("p1")
    \/ \E feature_id \in 1..MaxItems, ev \in ExpectedVersions,
          geometry \in BOOLEAN, assets \in BOOLEAN :
          \/ \E properties \in {None, Some(PatchProps), Some({})} :
                FeatureMutationHandler("p1", "update_feature", U, NameUA,
                                       feature_id, ev, geometry, assets,
                                       properties)
          \/ FeatureMutationHandler("p1", "replace_feature", U, NameUA,
                                    feature_id, ev, TRUE, assets,
                                    Some(PatchProps))
    \/ CheckAliasRedirect("p1")
    \/ FeatureMutationGetCollection("p1")
    \/ FeatureSelectForUpdate("p1")
    \/ FeatureWrite("p1")
    \/ Commit("p1")
    \/ Respond("p1")

PatchSpec == Init /\ [][PatchNext]_vars

\* two callers of with_role on a pool of three connections; the roles of u
\* and v exist once each has created a collection
RoleNext ==
    \/ \E user \in Users :
          CreateCollectionHandler("p1", user, <<"a">>, None, "raster")
    \/ InsertRow("p1")
    \/ Commit("p1")
    \/ \E p \in Procs :
          \/ \E username \in {U, V, Digit1} : WithRole(p, username)
          \/ WrAcquire(p)
          \/ WrSetRole(p)
          \/ WrBegin(p)
          \/ WrSetLocal(p)
          \/ WrOperation(p)
          \/ WrReset(p)
          \/ Respond(p)

RoleSpec == Init /\ [][RoleNext]_vars

Mutations == {"patch", "put", "delete"}

\* a finished mutation that fetched its row under the lock
Checked(r) ==
    /\ r.pc = "done"
    /\ r.op \in Mutations
    /\ r.cur # None

\* C1: a mutation by the owner that supplies the current version N is not
\* refused (it succeeds unless the backend rejects a statement) and an update
\* or replace returns the collection at version N + 1; a mutation that
\* supplies a version other than the current one fails with
\* PreconditionFailed.
C1_ExpectedVersion ==
    \A p \in Procs :
        LET r == req[p]
            current == The(r.cur)
        IN  (Checked(r) /\ r.expected # None) =>
               IF current.version = The(r.expected)
               THEN /\ r.status # "PreconditionFailed"
                    /\ (is_owner(current, r.user) /\ r.status # "Database")
                          => r.status = "Ok"
                    /\ (r.status = "Ok" /\ r.op \in {"patch", "put"}) =>
                          /\ The(r.result).id = current.id
                          /\ The(r.result).version = The(r.expected) + 1
               ELSE r.status = "PreconditionFailed"

\* a request that supplied version N was refused because the collection had
\* meanwhile moved on to N + 1
C1_Witness ==
    \E p \in Procs :
        /\ Checked(req[p])
        /\ req[p].expected # None
        /\ req[p].status = "PreconditionFailed"
        /\ The(req[p].cur).version = The(req[p].expected) + 1

----------------------------------------------------------------------------
(* PATCH without If-Match *)

----------------------------------------------------------------------------
(* Version counter *)

\* the step finishes the request in slot p
Finishes(p) == req[p].pc # "done" /\ req'[p].pc = "done"

\* C5: the version of a collection changes only by +1 in one step and never
\* decreases; a successful update or replace leaves the collection exactly
\* one version higher and returns it; a mutation that fails leaves every
\* collection as it was.
C5_VersionIncrements ==
    [][ /\ \A c \in collections : \A d \in collections' :
              c.id = d.id => d.version \in {c.version, c.version + 1}
        /\ \A p \in Procs :
              (Finishes(p) /\ req'[p].op \in Mutations) =>
                 IF req'[p].status = "Ok"
                 THEN req'[p].op \in {"patch", "put"} =>
                         \E c \in collections : \E d \in collections' :
                            /\ req[p].cur = {c}
                            /\ d.id = c.id
                            /\ d.version = c.version + 1
                            /\ req'[p].result = {d}
                 ELSE collections' = collections ]_vars

\* a replace has just been committed on a collection that was at version 1
C5_Witness ==
    \E p \in Procs :
        /\ Checked(req[p])
        /\ req[p].op = "put"
        /\ req[p].status = "Ok"
        /\ req[p].result \subseteq collections
        /\ The(req[p].cur).version = InitialVersion
        /\ The(req[p].result).version = InitialVersion + 1

----------------------------------------------------------------------------
(* Vector collections and their tables *)

\* the table a catalog row describes
TableOf(c) == TableRef(c.schema_name, c.table_name)

\* C6: when the creation of a vector collection returns, either it
\* succeeded and the catalog row, its table and the table's spatial index
\* all exist, or it failed (at whatever statement) and neither catalog nor
\* tables have changed; no table is ever visible without its index.
C6_CreateAtomic ==
    /\ [](\A t \in tables : t.indexed)
    /\ [][\A p \in Procs :
             (Finishes(p) /\ req'[p].op = "create"
                          /\ req'[p].ctype = "vector") =>
                IF req'[p].status = "Ok"
                THEN \E c \in collections' \ collections :
                        /\ req'[p].result = {c}
                        /\ c.canonical_name = req'[p].name
                        /\ collections' = collections \cup {c}
                        /\ tables' = tables \cup
                              {[schema |-> c.schema_name,
                                table |-> c.table_name, indexed |-> TRUE]}
                        /\ ~TableExists(TableOf(c))
                ELSE /\ collections' = collections
                     /\ tables' = tables]_vars

\* a creation failed at CREATE TABLE, after its catalog row had been
\* inserted, and the name is still free
C6_Witness ==
    \E p \in Procs :
        /\ req[p].pc = "done"
        /\ req[p].op = "create"
        /\ req[p].ctype = "vector"
        /\ req[p].detail = "duplicate_table"
        /\ ~NameTaken(req[p].name)

\* C7: in every committed state each vector collection has its table and
\* each table belongs to a vector collection, whatever creations and
\* deletions are in progress.
C7_RowAndTable ==
    /\ \A c \in collections :
          c.collection_type = "vector" => TableExists(TableOf(c))
    /\ \A t \in tables :
          \E c \in collections :
             /\ c.collection_type = "vector"
             /\ TableOf(c) = TableRef(t.schema, t.table)

\* one transaction has dropped a table and not yet deleted the row while
\* another is part-way through creating a vector collection
C7_Witness ==
    \E p, q \in Procs :
        /\ req[p].pc = "delete_row"
        /\ req[p].droptbl # None
        /\ req[q].pc \in {"create_table", "create_index"}
        /\ req[q].newrow # None

----------------------------------------------------------------------------
(* Renaming and aliases *)

\* the step commits a PATCH that renames the collection in slot p
Renames(p) ==
    /\ req[p].pc = "commit"
    /\ req[p].op = "patch"
    /\ req[p].new_name # None
    /\ The(req[p].new_name) # req[p].name
    /\ req'[p].pc = "done"
    /\ req'[p].status = "Ok"

\* C8: once a rename from old to new has been committed, a read of the new
\* name returns the collection with the resource id it had under the old
\* name, the alias old -> new is recorded, and a read of the old name finds
\* either nothing or a collection with a different resource id.
C8_Rename ==
    [][\A p \in Procs :
          Renames(p) =>
             LET old == req[p].name
                 new == The(req[p].new_name)
                 id == The(req[p].cur).id
             IN  /\ \E c \in collections' :
                       /\ get_collection(new)' = {c}
                       /\ c.id = id
                       /\ req'[p].result = {c}
                 /\ new \in get_alias(old)'
                 /\ \A c \in get_collection(old)' : c.id # id]_vars

\* a rename has been committed; the collection is stored under the new
\* name and the old name redirects to it
C8_Witness ==
    \E p \in Procs :
        LET r == req[p]
        IN  /\ r.pc = "done"
            /\ r.op = "patch"
            /\ r.status = "Ok"
            /\ r.new_name # None
            /\ The(r.new_name) # r.name
            /\ r.result = get_collection(The(r.new_name))
            /\ The(r.result).id = The(r.cur).id
            /\ get_collection(r.name) = {}
            /\ The(r.new_name) \in get_alias(r.name)

\* C9 as stated: once a collection has been renamed away from a name,
\* creating a new collection of any type under that name succeeds (unless
\* the backend is unavailable).
C9_CreateUnderOldName ==
    [][\A p \in Procs :
          ( /\ Finishes(p)
            /\ req[p].op = "create"
            /\ req[p].pc \in TxPcs
            /\ get_alias(req[p].name) # {}
            /\ get_collection(req[p].name) = {}
            /\ req'[p].detail # "unavailable" )
          => req'[p].status = "Ok"]_vars

\* C10: a read of a name carried by an active collection returns that
\* collection and is never redirected, whether or not an alias with the
\* same old name exists.
C10_ActivePriority ==
    \A p \in Procs :
        LET r == req[p]
        IN  (r.pc = "done" /\ r.op = "get" /\ get_collection(r.name) # {})
               => /\ r.status = "Ok"
                  /\ r.result = get_collection(r.name)
                  /\ r.location = None

\* a read returned the active collection of a name that also has an alias
C10_Witness ==
    \E p \in Procs :
        LET r == req[p]
        IN  /\ r.pc = "done"
            /\ r.op = "get"
            /\ r.status = "Ok"
            /\ get_alias(r.name) # {}
            /\ r.result = get_collection(r.name)
            /\ r.result # {}

\* C11 as stated: while a name has an alias and no active collection, a
\* GET under that name on the items, schema, tiles and sharing endpoints
\* answers 307 Temporary Redirect with a Location that carries the new name.
C11_SubresourceRedirect ==
    [][\A p \in Procs :
          ( /\ req[p].pc = "alias"
            /\ req'[p].pc # "alias"
            /\ req[p].op \in SubresourceGets
            /\ get_alias(req[p].name) # {}
            /\ get_collection(req[p].name) = {} )
          => /\ req'[p].status = "Redirect"
             /\ \E l \in req'[p].location :
                   l.collection \in get_alias(req[p].name)]_vars

----------------------------------------------------------------------------
(* Order of the checks of a mutation *)

\* the requests that change one feature or item
ItemMutations == FeatureMutations \cup {"item_update"}

\* the resource a finishing mutation found, as its last read saw it
TargetOf(p) ==
    LET r == req[p]
    IN  IF req'[p].op = "item_update" THEN item_rows(req'[p].feature_id)
        ELSE IF r.op \in FeatureMutations
        THEN IF r.store = None THEN {} ELSE stored_rows(r)
        ELSE IF r.pc = "lock"
        THEN {c \in collections : /\ c.id = r.target
                                  /\ c.canonical_name = r.name}
        ELSE get_collection(req'[p].name)

\* C12 as stated: every mutation of a collection or an item checks
\* existence, then the supplied version, then ownership: a missing resource
\* yields NotFound, an existing one with a stale supplied version yields
\* PreconditionFailed whoever the caller is, and Forbidden is returned only
\* when the version matched or none was supplied.
C12_CheckOrder ==
    [][\A p \in Procs :
          ( /\ Finishes(p)
            /\ req'[p].op \in Mutations \cup ItemMutations
            /\ req'[p].status \notin {"BadRequest", "Database"} )
          => LET r == req'[p]
                 target == TargetOf(p)
                 stale == /\ r.expected # None
                          /\ \A t \in target : t.version # The(r.expected)
             IN  /\ target = {} => r.status = "NotFound"
                 /\ (target # {} /\ stale) => r.status = "PreconditionFailed"
                 /\ r.status = "Forbidden" => (target # {} /\ ~stale)]_vars

\* C13 as stated: a mutation of an existing collection that supplies a
\* version other than the current one fails with PreconditionFailed, also
\* when the request carries another validation error such as a replace
\* whose body id does not match the path.
C13_PreconditionPriority ==
    [][\A p \in Procs :
          ( /\ Finishes(p)
            /\ req'[p].op \in Mutations
            /\ req'[p].expected # None
            /\ TargetOf(p) # {}
            /\ \A t \in TargetOf(p) : t.version # The(req'[p].expected)
            /\ req'[p].status # "Database" )
          => req'[p].status = "PreconditionFailed"]_vars

----------------------------------------------------------------------------
(* Failures and the transaction *)

\* C14: a catalog mutation that fails, at whatever statement, is reported
\* as an error and leaves catalog, aliases and tables as they were; these
\* change only in the step that commits a transaction, all at once, so a
\* rename that fails commits neither its alias nor any change to the row.
C14_FailureAborts ==
    [][ /\ \A p \in Procs :
              ( /\ Finishes(p)
                /\ req'[p].op \in Mutations \cup {"create"}
                /\ req'[p].status # "Ok" )
              => /\ collections' = collections
                 /\ aliases' = aliases
                 /\ tables' = tables
        /\ (collections' # collections \/ aliases' # aliases
                                       \/ tables' # tables)
              => \E p \in Procs :
                    /\ req[p].pc = "commit"
                    /\ req'[p].pc = "done"
                    /\ req'[p].status = "Ok"
                    /\ aliases' = aliases \cup req[p].newalias
                    /\ req[p].newalias # None => req[p].newrow # None ]_vars

\* a rename was refused by the unique index after its alias had been
\* inserted: the collection is still stored under the old name at the
\* version it had
C14_Witness ==
    \E p \in Procs :
        LET r == req[p]
        IN  /\ r.pc = "done"
            /\ r.op = "patch"
            /\ r.new_name # None
            /\ r.status = "Database"
            /\ r.detail = "unique_violation"
            /\ \E c \in get_collection(r.name) : c.version < MaxVersion
            /\ get_collection(The(r.new_name)) # {}

\* C15 as stated: when a mutating request is cancelled before it has
\* committed, none of its effects is visible afterwards: not the catalog
\* row or table it wrote, not the feature or item row it inserted, not its
\* version increment, and what it deleted is still there.
C15_CancelLeavesNothing ==
    [][\A p \in Procs :
          (Finishes(p) /\ req'[p].status = "Cancelled") =>
             LET r == req[p]
             IN  /\ r.newrow \cap collections' = {}
                 /\ \A ref \in r.newtbl : ~TableExists(ref)'
                 /\ r.newitem \cap items' = {}
                 /\ r.feature \cap items' = {}
                 /\ r.cur \subseteq collections'
                 /\ r.item \subseteq items']_vars

\* C16 as stated: a request that fails validation (BadRequest) or
\* authorization (Forbidden) has executed no mutating statement: it leaves
\* catalog, tables, aliases, items and roles as they were.
C16_RejectedBeforeMutation ==
    [][\A p \in Procs :
          (Finishes(p) /\ req'[p].status \in {"BadRequest", "Forbidden"})
          => /\ collections' = collections
             /\ tables' = tables
             /\ aliases' = aliases
             /\ items' = items
             /\ roles' = roles]_vars

----------------------------------------------------------------------------
(* Names *)

\* C17: no two collections of the catalog carry the same canonical_name,
\* whatever creations, renames and deletions have run or are running.
C17_UniqueNames ==
    \A c, d \in collections :
        c.canonical_name = d.canonical_name => c = d

\* two requests create the same name at once: one has inserted its row and
\* not yet committed, the other waits at its INSERT
C17_Witness ==
    \E p, q \in Procs :
        /\ p # q
        /\ req[p].op = "create"
        /\ InTx(p)
        /\ req[p].newrow # None
        /\ req[q].op = "create"
        /\ req[q].pc = "insert"
        /\ req[q].name = req[p].name

\* C18 as stated: every collection's stored schema is the first segment of
\* its canonical_name and its stored table is the remaining segments
\* joined with '_', also after renames.
C18_PhysicalNames ==
    \A c \in collections :
        /\ c.schema_name = schema_of(c.canonical_name)
        /\ c.table_name = table_of(c.canonical_name)

\* C19 as stated: the first segment of every collection's canonical_name
\* is the name of its owner, also for group-owned collections and after
\* renames.
C19_OwnerSegment ==
    \A c \in collections :
        SplitColon(c.canonical_name)[1] = c.owner

----------------------------------------------------------------------------
(* Row locks of different resources *)

\* another open transaction has locked this very collection row (FOR UPDATE,
\* an update of it, or the key-share lock of an insert that references it)
CollectionRowHeld(q, id) ==
    \E p \in Procs \ {q} :
        /\ InTx(p)
        /\ \/ \E c \in req[p].cur : c.id = id
           \/ id \in req[p].keyshare

\* another open transaction has locked this very item row, or has deleted
\* it along with its collection
ItemRowHeld(q, id, collection_id) ==
    \E p \in Procs \ {q} :
        /\ InTx(p)
        /\ \/ \E i \in req[p].item : i.id = id
           \/ /\ req[p].delrow
              /\ \E c \in req[p].cur : c.id = collection_id

----------------------------------------------------------------------------
(* Row locks of features and items *)

\* the request is in a feature or item mutation and waits for the row lock
WaitsForItem(q) == req[q].pc = "m_lock" /\ req'[q].pc # "m_lock"

\* the rows the waiting SELECT ... FOR UPDATE finds once it resumes
RowsNow(q) == stored_rows(req[q])

----------------------------------------------------------------------------
(* Ownership of a collection *)

\* the mutation has read its collection row and the caller is its owner
ByOwner(r) == r.cur # None /\ The(r.cur).owner = r.user

\* C22: update, replace and delete of a collection take effect only for
\* the collection's owner: a mutation whose caller is not the owner of the
\* row it locked never reaches a write and never succeeds, it is answered
\* Forbidden once the version check has passed, and no step of it changes a
\* collection, a table or an alias.
C22_OwnerOnly ==
    /\ [](\A p \in Procs :
             ( /\ req[p].op \in Mutations
               /\ req[p].cur # None
               /\ ~ByOwner(req[p]) )
             => /\ req[p].status # "Ok"
                /\ req[p].pc \notin {"alias_insert", "update", "drop_table",
                                     "delete_row", "commit"}
                /\ req[p].newrow = None /\ req[p].newalias = None
                /\ req[p].droptbl = None /\ ~req[p].delrow
                /\ ( /\ req[p].pc = "done"
                     /\ version_matches(req[p].expected, The(req[p].cur))
                     /\ req[p].detail # "unavailable" )
                      => req[p].status = "Forbidden")
    /\ [][\A p \in Procs :
             ( /\ req[p].op \in Mutations
               /\ req'[p] # req[p]
               /\ ~ByOwner(req[p]) )
             => UNCHANGED <<collections, tables, aliases>>]_vars

\* a caller who is not the owner was refused on an existing collection
\* whose version it supplied
C22_Witness ==
    \E p \in Procs :
        /\ req[p].pc = "done"
        /\ req[p].op \in Mutations
        /\ req[p].cur # None
        /\ req[p].expected # None
        /\ ~ByOwner(req[p])
        /\ req[p].status = "Forbidden"
        /\ req[p].cur \subseteq collections

----------------------------------------------------------------------------
(* Owner of a new collection *)

\* the requested owner is the caller or a group the caller belongs to
MayOwn(r) == r.owner = r.user \/ r.owner \in GroupsOf(r.user)

\* C23: a create whose requested owner is neither the calling principal
\* nor one of its groups is answered Forbidden by the handler, before the
\* service is called: it holds no pending row or table, and the step that
\* refuses it leaves collections, tables and roles as they were.
C23_CreateOwnerAuthorized ==
    /\ [](\A p \in Procs :
             (req[p].op = "create" /\ ~MayOwn(req[p]))
             => /\ req[p].pc = "done"
                /\ req[p].status = "Forbidden"
                /\ req[p].newrow = None
                /\ req[p].newtbl = None)
    /\ [][\A p \in Procs :
             ( /\ req'[p] # req[p]
               /\ req'[p].op = "create"
               /\ ~MayOwn(req'[p]) )
             => UNCHANGED <<collections, tables, roles>>]_vars

\* V, who belongs to no group, asked for a collection owned by the group G
\* whose role does not exist, and was refused
C23_Witness ==
    \E p \in Procs :
        /\ req[p].op = "create"
        /\ req[p].pc = "done"
        /\ req[p].user = V
        /\ req[p].owner = G
        /\ req[p].status = "Forbidden"
        /\ G \notin roles

----------------------------------------------------------------------------
(* Native privileges of the caller *)

\* the native privileges of a principal on a collection's table: those of
\* its owner, and those granted to the principal or to one of its groups
HasPrivilege(user, collection, privilege_type) ==
    \/ collection.owner \in {user} \cup GroupsOf(user)
    \/ \E g \in privileges :
          /\ g.schema = collection.schema_name
          /\ g.table = collection.table_name
          /\ g.grantee \in {user} \cup GroupsOf(user)
          /\ g.privilege_type = privilege_type

\* C24: the statements of a request run under the privileges of the
\* calling principal: a feature is inserted into a collection's table only
\* for a caller who owns the collection or holds INSERT on its table, and
\* the collection's features are listed only for a caller who owns it or
\* holds SELECT.
C24_NativePrivileges ==
    [][\A p \in Procs :
          /\ (req[p].pc = "f_insert" /\ items' # items)
                => HasPrivilege(req[p].user, The(req[p].coll), "INSERT")
          /\ ( /\ req[p].pc = "sub_get"
               /\ req[p].op = "list_features"
               /\ req'[p].status = "Ok" )
                => HasPrivilege(req[p].user, The(req'[p].result),
                                "SELECT")]_vars

----------------------------------------------------------------------------
(* Granting, listing and revoking shares *)

\* the share entry list_shares reports for a principal
ShareEntry(principal, permission) ==
    [principal |-> principal, permission |-> permission]

\* C25: when the owner's grant of write to an existing principal succeeds,
\* the shares of the collection contain that principal with permission
\* write; when the owner's revoke succeeds, they contain no entry for the
\* principal; a listing answers with exactly the shares of the collection;
\* and the privileges change with no other step than a grant, a revoke or
\* the commit that drops the table.
C25_GrantThenRevoke ==
    [][/\ \A p \in Procs :
             /\ ( /\ req[p].op = "add_share"
                  /\ req[p].permission = "write"
                  /\ req[p].pc = "grant_table"
                  /\ req'[p].status = "Ok" )
                   => \E c \in req[p].coll :
                         /\ c.owner = req[p].user
                         /\ role_exists(req[p].principal)
                         /\ ShareEntry(req[p].principal, "write")
                               \in list_shares(c)'
             /\ ( /\ req[p].op = "remove_share"
                  /\ req[p].pc = "revoke"
                  /\ req'[p].status = "Ok" )
                   => \E c \in req[p].coll :
                         /\ c.owner = req[p].user
                         /\ \A e \in list_shares(c)' :
                               e.principal # req[p].principal
             /\ ( /\ req[p].op = "list_shares"
                  /\ req[p].pc = "sub_get"
                  /\ req'[p].status = "Ok" )
                   => \E c \in get_collection(req[p].name) :
                         req'[p].shares = list_shares(c)
       /\ privileges' # privileges
             => \E p \in Procs :
                   req[p].pc \in {"grant_usage", "grant_table", "revoke",
                                  "commit"}]_vars

\* the owner lists the shares of its collection and finds V with
\* permission write
C25_Witness ==
    \E p \in Procs :
        /\ req[p].op = "list_shares"
        /\ req[p].pc = "done"
        /\ req[p].status = "Ok"
        /\ req[p].user = U
        /\ ShareEntry(V, "write") \in req[p].shares
        /\ V \in roles

----------------------------------------------------------------------------
(* Shares for a principal without a role *)

\* C26: a grant or a revoke by the owner for a principal that has no
\* native role (the name is a valid identifier and the collection's table
\* exists) fails with NotFound and leaves the privileges as they were.
C26_UnknownRoleNotFound ==
    [][\A p \in Procs :
          ( /\ req[p].op \in ShareOps
            /\ req[p].pc \in {"role_exists", "revoke"}
            /\ req'[p].pc = "done"
            /\ ~role_exists(req[p].principal)
            /\ is_valid_role_name(req[p].principal)
            /\ \E c \in req[p].coll :
                  TableExists(TableRef(c.schema_name, c.table_name)) )
          => /\ req'[p].status = "NotFound"
             /\ UNCHANGED privileges]_vars

----------------------------------------------------------------------------
(* Raster collections have no table *)

\* C27: a create of a raster collection never issues CREATE TABLE or
\* CREATE INDEX and holds no pending table, a delete of a raster collection
\* never issues DROP TABLE, and the set of dedicated tables changes only
\* with the commit of a vector create or of a vector delete.
C27_RasterHasNoTable ==
    /\ [](\A p \in Procs :
             (req[p].op = "create" /\ req[p].ctype = "raster")
             => /\ req[p].pc \notin {"create_table", "create_index"}
                /\ req[p].newtbl = None
                /\ ~req[p].newidx)
    /\ [](\A p \in Procs :
             ( /\ req[p].op = "delete"
               /\ \E c \in req[p].cur : c.collection_type = "raster" )
             => /\ req[p].pc # "drop_table"
                /\ req[p].droptbl = None)
    /\ [][tables' # tables
             => \E p \in Procs :
                   /\ req[p].pc = "commit"
                   /\ \/ req[p].op = "create" /\ req[p].ctype = "vector"
                      \/ /\ req[p].op = "delete"
                         /\ \E c \in req[p].cur :
                               c.collection_type = "vector"]_vars

\* a raster collection was created and has now been deleted
C27_Witness ==
    \E p \in Procs :
        /\ req[p].op = "delete"
        /\ req[p].pc = "done"
        /\ req[p].status = "Ok"
        /\ \E c \in req[p].cur : c.collection_type = "raster"

----------------------------------------------------------------------------
(* Aliases are append-only *)

\* the request is a PATCH that supplies a new name and commits now
RenameCommits(p) ==
    /\ req[p].op = "patch"
    /\ req[p].new_name # None
    /\ req[p].pc = "commit"
    /\ req'[p].status = "Ok"

----------------------------------------------------------------------------
(* Validated identifiers *)

\* the schema, table and role names interpolated into the statement the
\* request is about to issue
StatementNames(r) ==
    IF r.pc \in {"create_table", "create_index"}
    THEN {schema_of(r.name), table_of(r.name)}
    ELSE IF r.pc = "drop_table"
    THEN {The(r.cur).schema_name, The(r.cur).table_name}
    ELSE IF r.pc = "f_insert"
    THEN {The(r.coll).schema_name, The(r.coll).table_name}
    ELSE IF r.pc \in {"m_select", "m_lock", "m_write"}
    THEN IF The(r.store) = ItemsTable THEN {}
         ELSE {The(r.store).schema, The(r.store).table}
    ELSE IF r.pc = "grant_usage"
    THEN {The(r.coll).schema_name, r.principal}
    ELSE IF r.pc \in {"grant_table", "revoke"}
    THEN {The(r.coll).schema_name, The(r.coll).table_name, r.principal}
    ELSE {}

\* C29: every schema, table and role name interpolated into a CREATE
\* TABLE, CREATE INDEX, DROP TABLE, GRANT, REVOKE or feature INSERT /
\* UPDATE statement is a valid identifier: the names of a create were
\* validated by it, the names read from the catalog were validated when
\* the row was created, and the role of a grant or revoke is validated by
\* that call. Every role, every schema and table name in the catalog, and
\* every table is a valid identifier.
C29_ValidatedNames ==
    /\ \A p \in Procs :
          \A n \in StatementNames(req[p]) : is_valid_role_name(n)
    /\ \A c \in collections :
          is_valid_role_name(c.schema_name) /\ is_valid_role_name(c.table_name)
    /\ \A t \in tables :
          is_valid_role_name(t.schema) /\ is_valid_role_name(t.table)
    /\ \A n \in roles : is_valid_role_name(n)

\* the collection carries a canonical name that is no valid identifier (it
\* was renamed) and its table is about to be dropped under the names
\* validated at its creation
C29_Witness ==
    \E p \in Procs :
        /\ req[p].pc = "drop_table"
        /\ \E c \in req[p].cur :
              /\ ~is_valid_role_name(c.canonical_name)
              /\ TableExists(TableRef(c.schema_name, c.table_name))

----------------------------------------------------------------------------
(* Arity of the filter operators *)

\* the node is an operator applied to the wrong number of children, or an
\* interval of the wrong length
WrongArity(e) ==
    LET o == to_lowercase(e.op)
        n == Len(e.args)
    IN  IF e.kind = "interval" THEN n # 2
        ELSE IF e.kind # "operation" THEN FALSE
        ELSE IF o = "not" THEN n # 1
        ELSE IF o \in SymbolOps \cup DOMAIN BinaryOps THEN n # 2
        ELSE IF o = "between" THEN n # 3
        ELSE IF o = "in" THEN n < 2
        ELSE IF o \in DOMAIN SpatialMapping THEN n # 2
        ELSE IF o = "s_dwithin" THEN n # 3
        ELSE IF o \in {"t_intersects", "a_contains"} THEN n # 2
        ELSE IF o \in {"isnull", "is null"} THEN n # 1
        ELSE FALSE

\* the nodes of the tree
RECURSIVE Nodes(_)
Nodes(e) == {e} \cup UNION {Nodes(e.args[i]) : i \in 1..Len(e.args)}

\* the number of leaves of a kind in the tree
RECURSIVE Leaves(_, _)
Leaves(e, kind) ==
    IF Len(e.args) = 0
    THEN IF e.kind = kind THEN 1 ELSE 0
    ELSE LET below == [i \in 1..Len(e.args) |-> Leaves(e.args[i], kind)]
             Sum[i \in 0..Len(e.args)] ==
                 IF i = 0 THEN 0 ELSE Sum[i - 1] + below[i]
         IN  Sum[Len(e.args)]

\* how often a piece occurs in the SQL text
Occurrences(sql, piece) == Cardinality({i \in 1..Len(sql) : sql[i] = piece})

\* the name under which the error message reports the node
ReportedAs(e) ==
    IF e.kind = "interval" THEN "Interval"
    ELSE IF to_lowercase(e.op) \in DOMAIN SpatialMapping THEN e.op
    ELSE IF to_lowercase(e.op) \in SymbolOps \cup DOMAIN BinaryOps
    THEN sql_op_of(to_lowercase(e.op))
    ELSE IF to_lowercase(e.op) = "not" THEN "NOT"
    ELSE IF to_lowercase(e.op) = "between" THEN "BETWEEN"
    ELSE IF to_lowercase(e.op) = "in" THEN "IN"
    ELSE IF to_lowercase(e.op) = "t_intersects" THEN "T_INTERSECTS"
    ELSE IF to_lowercase(e.op) = "a_contains" THEN "A_CONTAINS"
    ELSE IF to_lowercase(e.op) \in {"isnull", "is null"} THEN "IS NULL"
    ELSE "S_DWITHIN"

\* C30: a filter in which some operator has the wrong number of children
\* (NOT other than 1, a comparison or arithmetic operator other than 2,
\* BETWEEN other than 3, IN fewer than 2, a spatial predicate other than 2,
\* s_dwithin other than 3, t_intersects or a_contains other than 2, IS
\* NULL other than 1) or some interval has not 2 elements, at any depth,
\* is refused with BadRequest and a message that names such an
\* operator, and no predicate is produced; every other filter compiles to
\* a predicate that renders each property and each literal of the tree
\* once and contains no NULL placeholder.
C30_ArityChecked ==
    \A p \in Procs :
        (req[p].pc = "done" /\ req[p].filter # None)
        => LET e == The(req[p].filter)
               wrong == {n \in Nodes(e) : WrongArity(n)}
           IN  IF wrong # {}
               THEN /\ req[p].status = "BadRequest"
                    /\ req[p].sql = None
                    /\ Len(req[p].error) = 2
                    /\ \E n \in wrong : req[p].error[1] = ReportedAs(n)
               ELSE /\ req[p].status = "Ok"
                    /\ \E sql \in req[p].sql :
                          /\ Occurrences(sql, "NULL") = 0
                          /\ Occurrences(sql, "p") = Leaves(e, "property")
                          /\ Occurrences(sql, Quote)
                                = 2 * Leaves(e, "literal")

\* a filter whose top operator is applied correctly and one of whose
\* children is not was refused
C30_Witness ==
    \E p \in Procs :
        /\ req[p].pc = "done"
        /\ req[p].status = "BadRequest"
        /\ \E e \in req[p].filter :
              /\ ~WrongArity(e)
              /\ \E i \in 1..Len(e.args) : WrongArity(e.args[i])

----------------------------------------------------------------------------
(* Dismissing a job *)

\* C31: when the owner of a job dismisses it while its status is accepted
\* or running, the dismissal succeeds, and from then on a read of the job
\* by its owner reports the status dismissed.
C31_DismissedIsRead ==
    [][/\ \A j \in jobs :
            /\ req["p1"].pc = "job"
            /\ req["p1"].op = "dismiss_job"
            /\ req["p1"].job_id = j.id
            /\ req["p1"].user = j.owner
            /\ j.status \in {"accepted", "running"}
            /\ req'["p1"].pc = "done"
            => /\ req'["p1"].status = "Ok"
               /\ \A k \in get_job(j.owner, j.id)' : k.status = "dismissed"
       /\ \A j \in jobs :
            j.status = "dismissed"
            => \A k \in get_job(j.owner, j.id)' : k.status = "dismissed"]_vars

----------------------------------------------------------------------------
(* Terminal statuses of a job *)

\* C33: once the status of a job is successful, failed or dismissed, no
\* step (a progress update of a worker, a worker recording outputs or a
\* failure, another dismissal) changes it.
C33_TerminalAbsorbing ==
    [][\A j \in jobs :
          j.status \in {"successful", "failed", "dismissed"}
          => \E k \in jobs' : k.id = j.id /\ k.status = j.status]_vars

----------------------------------------------------------------------------
(* One worker per job *)

\* C39: a job is claimed by at most one worker, also when several workers
\* poll at once: a worker is handed a job only when it moves it from
\* accepted to running, no other worker has the job, and a job that has
\* left accepted never returns to it.
C39_ClaimedOnce ==
    [][/\ \A w \in Workers :
            workers[w].pc # "work" /\ workers'[w].pc = "work"
            => /\ \E j \in jobs : /\ j.id = workers'[w].job
                                  /\ j.status = "accepted"
               /\ \E k \in jobs' : /\ k.id = workers'[w].job
                                   /\ k.status = "running"
               /\ \A v \in Workers \ {w} :
                     workers'[v].job # workers'[w].job
       /\ \A j \in jobs :
            j.status # "accepted"
            => \A k \in jobs' : k.id = j.id => k.status # "accepted"]_vars

\* two workers poll at once: one holds the first job, the other has passed
\* over it and holds the second
C39_Witness ==
    /\ workers["w1"].pc = "claim"
    /\ workers["w2"].pc = "claim"
    /\ workers["w1"].job # workers["w2"].job

----------------------------------------------------------------------------
(* Every job finishes *)

\* C40: while the workers keep polling, every accepted job eventually has
\* one of the statuses successful, failed or dismissed, also when the last
\* status write of a worker fails.
C40_JobsFinish ==
    \A id \in 1..MaxJobs :
        (\E j \in jobs : j.id = id /\ j.status = "accepted")
        ~> (\E j \in jobs :
               j.id = id /\ j.status \in {"successful", "failed", "dismissed"})

----------------------------------------------------------------------------
(* PATCH applies the properties *)

\* C32: a successful PATCH of a feature or item whose body has properties
\* applies them: the feature of the response and the stored row that later
\* reads return carry the patched values, in the shared items table and in
\* the table of a vector collection alike.
C32_PatchApplied ==
    [][\A p \in Procs :
          /\ req[p].op = "update_feature"
          /\ req[p].properties # None
          /\ req[p].pc # "done"
          /\ req'[p].pc = "done"
          /\ req'[p].status = "Ok"
          => /\ \A f \in req'[p].feature :
                   The(req[p].properties) \subseteq f.properties
             /\ \A i \in items' :
                   i.id = req[p].feature_id
                   => The(req[p].properties) \subseteq i.properties]_vars

----------------------------------------------------------------------------
(* Storage descriptors *)

\* C34: no two collections of the catalog have the same storage descriptor
\* {schema_name, table_name}.
C34_DescriptorsDistinct ==
    \A c, d \in collections :
        c.id # d.id
        => TableRef(c.schema_name, c.table_name)
               # TableRef(d.schema_name, d.table_name)

----------------------------------------------------------------------------
(* Targets of the aliases *)

\* C35 as stated: in every state the new_name of every alias row is the
\* canonical name of a collection of the catalog.
C35_AliasTargetsLive ==
    \A a \in aliases :
        \E c \in collections : c.canonical_name = a.new_name

\* C35, amended: the new_name of an alias row is the canonical name of a
\* collection of the catalog when the row is written: the row commits
\* together with the rename that gives the collection this name.
C35_AliasTargetLiveWhenWritten ==
    [][\A a \in aliases' \ aliases :
          \E c \in collections' : c.canonical_name = a.new_name]_vars

\* a rename has committed and its alias leads to the renamed collection
C35_Witness ==
    \E a \in aliases, c \in collections :
        /\ c.canonical_name = a.new_name
        /\ req["p1"].op = "patch"
        /\ req["p1"].pc = "done"
        /\ req["p1"].status = "Ok"
        /\ req["p1"].new_name = Some(a.new_name)
        /\ req["p1"].name = a.old_name

----------------------------------------------------------------------------
(* The latest grant *)

\* C36: the latest grant to a principal decides what the share list
\* reports: when a grant by the owner succeeds, the shares of the
\* collection contain the principal (other than the owner, who is never
\* listed) with the permission of this grant, also when it is a grant of
\* read after a grant of write.
C36_LatestGrantListed ==
    [][\A p \in Procs :
          /\ req[p].op = "add_share"
          /\ req[p].pc = "grant_table"
          /\ req'[p].status = "Ok"
          /\ \A c \in req[p].coll : c.owner # req[p].principal
          => \E c \in req[p].coll :
                [principal |-> req[p].principal,
                 permission |-> req[p].permission] \in list_shares(c)']_vars

----------------------------------------------------------------------------
(* The role of a pooled connection *)

\* C37: whenever with_role has returned, with a result or with the error
\* of any of its steps, the connection it set the role on has had its role
\* reset: no connection in the pool carries the role of a principal.
C37_RoleResetOnReturn ==
    \A c \in Conns :
        (\A p \in Procs : c \notin req[p].conn) => conns[c] = None

----------------------------------------------------------------------------
(* Group-owned collections and the ownership check *)

\* C38: every collection has a principal whose update, replace and delete
\* pass the ownership check; in particular a member of the group that owns
\* a collection, as its creator is, is never answered Forbidden when
\* updating, replacing or deleting it.
C38_GroupOwnerMayMutate ==
    \A p \in Procs :
        ( /\ req[p].op \in {"patch", "put", "delete"}
          /\ req[p].cur # None
          /\ The(req[p].cur).owner \in GroupsOf(req[p].user) )
        => req[p].status # "Forbidden"

====
